---- MODULE Spec2Model ----
(***************************************************************************)
(* The evaluation comparison pipeline of visualize/app.py: loading the     *)
(* evaluation documents of the store, extract_schema, the intersection of  *)
(* the score types, create_comparison_table, the exclusion filter, the     *)
(* summary statistics, the CSV exports, the heatmaps and the histograms.   *)
(* The other tools follow it, each with a specification of its own:        *)
(* editor/app.py (EditorSpec), gather/app.py and annotate/app.py           *)
(* (CollectorSpec), compare/app.py (CompareSpec) and prompts/app.py        *)
(* (PromptsSpec).  In the specification of one tool the variables of the   *)
(* other tools stay as they are before their first script run.             *)
(*                                                                         *)
(* Python values of visualize/app.py are modelled as follows.              *)
(*   str        a sequence of code points (so that sorted(), +, endswith   *)
(*              and replace act as they do on the characters)              *)
(*   optional   a sequence of length 0 (absent) or 1 (present)             *)
(*   dict       a function on its key set; where the insertion order is    *)
(*              observable (row_data, model_data, evaluations) a record    *)
(*              [keys |-> sequence, val |-> function]                      *)
(*   set        a set; its iteration order is the order of hashOrder       *)
(*   DataFrame  [columns |-> sequence of names, rows |-> sequence of       *)
(*              functions from the column names to cells]                  *)
(*   cell       None = <<>>, a number n = <<0, n>>, a str s = <<1>> \o s    *)
(***************************************************************************)
EXTENDS Integers, Sequences, FiniteSets, TLC

VARIABLES
    store,              \* the dataset repository: listing order and blob of each compare/*.json
    hashOrder,          \* the process's iteration order of sets of str (hash seed)
    selected_files,     \* value of the "Choose evaluation files" multiselect
    status,             \* where the script run is: loading, no_data, no_common, error, done
    fetch_list,         \* json_files of load_evaluation_data
    fetch_idx,          \* position of its for loop
    warnings,           \* the files its st.warning("Error loading ...") was shown for
    evaluations,        \* model_name -> document, in insertion order
    schemas,            \* model_name -> schema, in insertion order
    common_score_types, \* main: set.intersection of the schemas' score_types
    comparison_df,      \* main: create_comparison_table(...)
    exclusion_options,  \* options the "Exclude questions" multiselect was last drawn with
    excluded_questions, \* value of the "Exclude questions" multiselect
    filtered_df,        \* main: comparison_df without the excluded rows
    summary_df,         \* main: the summary statistics table
    summary_csv,        \* main: summary_df.to_csv(index=False)
    full_csv,           \* main: comparison_df.to_csv(index=False)
    heatmaps,           \* main: one create_score_heatmap per common score type
    histograms,         \* main: one create_score_histogram per common score type
    \* editor/app.py
    questions,          \* st.session_state.questions
    questions_json,     \* questions.json of the dataset repository
    editor_event,       \* the button of the last script run and the values of its form
    editor_message,     \* the st.success / st.error of the last script run
    \* gather/app.py and annotate/app.py
    collect_tool,       \* the tool whose page is open: gather or annotate
    repo_files,         \* the files below gather/ and annotate/ of the dataset repository
    issued,             \* the values uuid.uuid4() has returned
    g_session_id,       \* gather: st.session_state.session_id
    g_responses,        \* gather: st.session_state.responses
    g_metadata,         \* gather: st.session_state.metadata
    a_session_id,       \* annotate: st.session_state.session_id
    a_annotations,      \* annotate: st.session_state.annotations
    annotator,          \* annotate: value of "Annotator Name"
    selected_topic,     \* annotate: value of "Select Topic to Filter"
    q_quality,          \* annotate: value of the question quality radio of each question
    \* compare/app.py
    session_files,      \* the files gather/session-* of the dataset repository, as listed
    evaluation_schema,  \* evaluation.json of the dataset repository, if any
    selected_session_keys, \* value of "Choose sessions to compare:"
    uploaded_file,      \* value of the file uploader
    json_text,          \* value of "Or paste JSON content here:"
    c_comparison_data,  \* comparison_data of the last script run
    responses,          \* responses at the end of the last script run
    compare_stopped,    \* the last script run ended in the st.stop of a failed validation
    comparison_files,   \* the files below compare/ the tool has uploaded
    \* prompts/app.py
    prompts_file,       \* the prompts of system_prompts.json of the dataset repository, if any
    prompts_cache,      \* the cached return value of load_prompts, if any
    prompt_schema,      \* whether load_evaluation_schema finds evaluation.json
    editing_prompt,     \* st.session_state.editing_prompt, if any
    prompt_upload,      \* value of "Upload a JSON file with prompts"
    prompt_text,        \* value of "Paste your JSON here"
    custom_prompt,      \* value of "Enter your custom prompt instructions"
    prompt_ids,         \* the values uuid.uuid4() has returned
    prompt_event        \* the button of the last script run and what it imported

vars == <<store, hashOrder, selected_files, status, fetch_list, fetch_idx,
          warnings, evaluations, schemas, common_score_types, comparison_df,
          exclusion_options, excluded_questions, filtered_df, summary_df, summary_csv, full_csv,
          heatmaps, histograms>>

editorVars == <<questions, questions_json, editor_event, editor_message>>

collectVars == <<collect_tool, repo_files, issued, g_session_id, g_responses, g_metadata,
                 a_session_id, a_annotations, annotator, selected_topic, q_quality>>

compareVars == <<session_files, evaluation_schema, selected_session_keys, uploaded_file,
                 json_text, c_comparison_data, responses, compare_stopped, comparison_files>>

promptVars == <<prompts_file, prompts_cache, prompt_schema, editing_prompt, prompt_upload,
                prompt_text, custom_prompt, prompt_ids, prompt_event>>

\* The state of the tools other than visualize/app.py, than editor/app.py,
\* than gather/app.py and annotate/app.py, than compare/app.py, than
\* prompts/app.py.
otherTools == <<editorVars, collectVars, compareVars, promptVars>>
besideEditor == <<vars, collectVars, compareVars, promptVars>>
besideCollector == <<vars, editorVars, compareVars, promptVars>>
besideCompare == <<vars, editorVars, collectVars, promptVars>>
besidePrompts == <<vars, editorVars, collectVars, compareVars>>

(***************************************************************************)
(* Bounds of the model.                                                    *)
(***************************************************************************)
\* Most items in the evaluations lists of a generated store, all documents together.
MaxItems == 3

\* The longest question list of the editor.
MaxQuestions == 2

\* The readings of the wall clock.
MaxClock == 1

\* The values uuid4 can return.
MaxUuids == 2

(***************************************************************************)
(* The strings of the model, as code points.                               *)
(***************************************************************************)
doc1 == <<100, 111, 99, 49>>
doc2 == <<100, 111, 99, 50>>
doc1_v2 == <<100, 111, 99, 49, 95, 118, 50>>
doc3 == <<100, 111, 99, 51>>
correctness == <<99, 111, 114, 114, 101, 99, 116, 110, 101, 115, 115>>
fluency == <<102, 108, 117, 101, 110, 99, 121>>
Fluency == <<70, 108, 117, 101, 110, 99, 121>>
v2_correctness == <<118, 50, 95, 99, 111, 114, 114, 101, 99, 116, 110, 101, 115, 115>>
evaluator == <<101, 118, 97, 108, 117, 97, 116, 111, 114>>
unknown == <<117, 110, 107, 110, 111, 119, 110>>
alice == <<97, 108, 105, 99, 101>>
model == <<109, 111, 100, 101, 108>>
gpt == <<103, 112, 116>>
question_id == <<113, 117, 101, 115, 116, 105, 111, 110, 95, 105, 100>>
Model == <<77, 111, 100, 101, 108>>
Evaluator == <<69, 118, 97, 108, 117, 97, 116, 111, 114>>
Q1 == <<81, 49>>
Q2 == <<81, 50>>
Q3 == <<81, 51>>
Q10 == <<81, 49, 48>>
Underscore == <<95>>

(***************************************************************************)
(* Generic helpers.                                                        *)
(***************************************************************************)
Range(s) == {s[i] : i \in 1..Len(s)}

Absent == <<>>
Some(v) == <<v>>
Has(o) == Len(o) = 1
Get(o) == o[1]

\* All sequences over S of length at most n.
SeqsUpTo(S, n) == UNION {[1..k -> S] : k \in 0..n}

\* All orderings of the finite set S.
Perms(S) == {p \in [1..Cardinality(S) -> S] : Range(p) = S}

\* str < str of Python: lexicographic on the code points.
StrLess(a, b) ==
    \E i \in 1..Len(b) :
        /\ \A j \in 1..(i - 1) : j <= Len(a) /\ a[j] = b[j]
        /\ (i > Len(a) \/ a[i] < b[i])

\* A wrong ordering: shorter strings first, then lexicographic.
StrLessShortlex(a, b) ==
    \/ Len(a) < Len(b)
    \/ Len(a) = Len(b) /\ \E i \in 1..Len(b) :
           /\ \A j \in 1..(i - 1) : a[j] = b[j]
           /\ a[i] < b[i]

\* sorted(S) for a set of str.
RECURSIVE sorted(_)
sorted(S) ==
    IF S = {} THEN <<>>
    ELSE LET m == CHOOSE x \in S : \A y \in S \ {x} : StrLess(x, y)
         IN  <<m>> \o sorted(S \ {m})

\* Iteration order of a set of str in this process.
SetIter(S) == SelectSeq(hashOrder, LAMBDA x : x \in S)

(***************************************************************************)
(* Cells of a DataFrame.                                                   *)
(***************************************************************************)
None == <<>>
Num(n) == <<0, n>>
Str(s) == <<1>> \o s
IsNone(c) == c = <<>>
IsNum(c) == Len(c) = 2 /\ c[1] = 0
IsStr(c) == Len(c) >= 1 /\ c[1] = 1
NumOf(c) == c[2]
StrOf(c) == Tail(c)

(***************************************************************************)
(* Documents.                                                              *)
(***************************************************************************)
\* One element of "evaluations".
Item(q, sc) == [question_id |-> q, scores |-> sc]

\* A scores mapping: score type -> number.
Scores(pairs) == [k \in {p[1] : p \in pairs} |-> (CHOOSE p \in pairs : p[1] = k)[2]]

\* One element of "evaluations" that has no "scores".
ItemNoScores(q) == [question_id |-> q]
HasScores(item) == "scores" \in DOMAIN item

\* One element of "evaluations" that has no "question_id".
ItemNoId(sc) == [scores |-> sc]
HasId(item) == "question_id" \in DOMAIN item

\* An evaluation_metadata that is present and is no mapping (a string, a
\* list, a number, null): neither absent nor a value with keys.
NotAMapping == <<0, 0>>
IsNotAMapping(o) == Len(o) = 2

\* An evaluation document (a JSON object); each field optional.
Doc(meta, crit, evals) ==
    [evaluation_metadata |-> meta, evaluation_criteria |-> crit, evaluations |-> evals]

\* What json.load gives for a file that holds no JSON object: a list of
\* numbers, a number (null and the booleans behave as a number does).
JsonList == [json |-> "list"]
JsonNumber == [json |-> "number"]
IsMapping(data) == "evaluations" \in DOMAIN data

\* A file hf_hub_download cannot fetch or json.load cannot parse.
Unreadable == [json |-> "unreadable"]

\* evaluation_criteria with the given keys.
Criteria(keys) == [k \in keys |-> TRUE]


\* The keys of an item of "evaluations".
scoresKey == <<115, 99, 111, 114, 101, 115>>
ItemKeys(item) ==
    (IF HasId(item) THEN {question_id} ELSE {}) \cup (IF HasScores(item) THEN {scoresKey} ELSE {})

(***************************************************************************)
(* Insertion-ordered dict.                                                 *)
(***************************************************************************)
EmptyDict == [keys |-> <<>>, val |-> [k \in {} |-> None]]

\* d[k] = v
DictSet(d, k, v) ==
    [keys |-> IF k \in Range(d.keys) THEN d.keys ELSE Append(d.keys, k),
     val  |-> [x \in (DOMAIN d.val) \cup {k} |-> IF x = k THEN v ELSE d.val[x]]]

(***************************************************************************)
(* extract_schema                                                          *)
(***************************************************************************)
\* The `in` tests raise TypeError on a number; .keys() raises AttributeError
\* on an evaluation_metadata that is no mapping.
SchemaRaises(evaluation_data) ==
    \/ evaluation_data = JsonNumber
    \/ IsMapping(evaluation_data) /\ IsNotAMapping(evaluation_data.evaluation_metadata)

EmptySchema == [score_types |-> {}, metadata_fields |-> {}, evaluation_fields |-> {}]

\* A schema that takes the score types of every item, not of the first only.
extract_schema_all_items(evaluation_data) ==
    IF ~IsMapping(evaluation_data) THEN EmptySchema
    ELSE
    LET items == IF Has(evaluation_data.evaluations)
                 THEN Get(evaluation_data.evaluations) ELSE <<>>
    IN  [score_types |->
             (IF Has(evaluation_data.evaluation_criteria)
              THEN DOMAIN Get(evaluation_data.evaluation_criteria) ELSE {})
             \cup UNION {IF HasScores(items[i]) THEN DOMAIN items[i].scores ELSE {}
                         : i \in 1..Len(items)},
         metadata_fields |->
             IF Has(evaluation_data.evaluation_metadata)
             THEN DOMAIN Get(evaluation_data.evaluation_metadata) ELSE {},
         evaluation_fields |->
             IF Len(items) > 0 THEN ItemKeys(items[1]) ELSE {}]

\* On a list of numbers every `in` test is False and the empty schema is returned.
extract_schema(evaluation_data) ==
    IF ~IsMapping(evaluation_data) THEN EmptySchema
    ELSE
    LET fromCriteria ==
            IF Has(evaluation_data.evaluation_criteria)
            THEN DOMAIN Get(evaluation_data.evaluation_criteria)
            ELSE {}
        \* 'evaluations' in evaluation_data and evaluation_data['evaluations']
        hasFirst ==
            /\ Has(evaluation_data.evaluations)
            /\ Len(Get(evaluation_data.evaluations)) > 0
        first_eval == Get(evaluation_data.evaluations)[1]
    IN  [score_types |->
             fromCriteria \cup (IF hasFirst /\ HasScores(first_eval)
                                THEN DOMAIN first_eval.scores ELSE {}),
         metadata_fields |->
             IF Has(evaluation_data.evaluation_metadata)
             THEN DOMAIN Get(evaluation_data.evaluation_metadata)
             ELSE {},
         evaluation_fields |->
             IF hasFirst THEN ItemKeys(first_eval) ELSE {}]

(***************************************************************************)
(* create_comparison_table                                                 *)
(***************************************************************************)
\* eval_data.get('evaluations', [])
ItemsOf(eval_data) ==
    IF Has(eval_data.evaluations) THEN Get(eval_data.evaluations) ELSE <<>>

\* The set all_questions.
AllQuestions(evals) ==
    UNION {{ItemsOf(evals.val[m])[i].question_id : i \in 1..Len(ItemsOf(evals.val[m]))}
           : m \in Range(evals.keys)}

\* A wrong order of the rows: by length first.
RECURSIVE QuestionOrderShortlex(_)
QuestionOrderShortlex(S) ==
    IF S = {} THEN <<>>
    ELSE LET m == CHOOSE x \in S : \A y \in S \ {x} : StrLessShortlex(x, y)
         IN  <<m>> \o QuestionOrderShortlex(S \ {m})

\* for question_id in sorted(all_questions)
QuestionOrder(S) == sorted(S)

\* f"{model_name}_{score_type}" and f"{model_name}_evaluator"
ColName(model_name, suffix) == model_name \o Underscore \o suffix

\* eval_data.get('evaluation_metadata', {}).get('evaluator', 'unknown')
EvaluatorOf(eval_data) ==
    IF Has(eval_data.evaluation_metadata)
       /\ evaluator \in DOMAIN Get(eval_data.evaluation_metadata)
    THEN Get(eval_data.evaluation_metadata)[evaluator]
    ELSE unknown

\* next((q for q in ... if q['question_id'] == question_id), None)
FindQuestion(items, qid) ==
    LET hits == {i \in 1..Len(items) : items[i].question_id = qid}
    IN  IF hits = {} THEN Absent
        ELSE Some(items[CHOOSE i \in hits : \A j \in hits : i <= j])

\* question_data['scores'].get(score_type, None), or None without question_data
ScoreCell(question_data, score_type) ==
    IF Has(question_data) /\ score_type \in DOMAIN Get(question_data).scores
    THEN Num(Get(question_data).scores[score_type])
    ELSE None

\* An inner loop that reads every score from the score type iterated first.
RECURSIVE RowScoresByPosition(_, _, _, _, _)
RowScoresByPosition(row_data, model_name, question_data, score_types, i) ==
    IF i > Len(score_types) THEN row_data
    ELSE RowScoresByPosition(
             DictSet(row_data, ColName(model_name, score_types[i]),
                     ScoreCell(question_data, score_types[1])),
             model_name, question_data, score_types, i + 1)

\* The inner loop: for score_type in score_types, from position i on.
RECURSIVE RowScores(_, _, _, _, _)
RowScores(row_data, model_name, question_data, score_types, i) ==
    IF i > Len(score_types) THEN row_data
    ELSE RowScores(DictSet(row_data, ColName(model_name, score_types[i]),
                           ScoreCell(question_data, score_types[i])),
                   model_name, question_data, score_types, i + 1)

\* The loop: for model_name, eval_data in evaluations.items(), from position m on.
RECURSIVE RowModels(_, _, _, _, _)
RowModels(row_data, evals, score_types, qid, m) ==
    IF m > Len(evals.keys) THEN row_data
    ELSE LET model_name == evals.keys[m]
             eval_data == evals.val[model_name]
             withEvaluator ==
                 DictSet(row_data, ColName(model_name, evaluator),
                         Str(EvaluatorOf(eval_data)))
             question_data == FindQuestion(ItemsOf(eval_data), qid)
         IN  RowModels(RowScores(withEvaluator, model_name, question_data,
                                 score_types, 1),
                       evals, score_types, qid, m + 1)

\* pd.DataFrame(list of dicts): the columns are the keys in order of appearance.
DataFrame(dicts) ==
    [columns |-> IF Len(dicts) = 0 THEN <<>> ELSE dicts[1].keys,
     rows    |-> [i \in 1..Len(dicts) |-> dicts[i].val]]

\* create_comparison_table raises: eval_data.get on a document that is no
\* mapping (AttributeError), eval_item['question_id'] on an item without
\* question_id (KeyError), .get('evaluator') on an evaluation_metadata
\* that is no mapping (AttributeError), question_data['scores'] on an item
\* without scores (KeyError).
TableRaises(evals, score_types) ==
    \/ \E m \in Range(evals.keys) : ~IsMapping(evals.val[m])
    \/ \E m \in Range(evals.keys) :
           \E i \in 1..Len(ItemsOf(evals.val[m])) : ~HasId(ItemsOf(evals.val[m])[i])
    \/ /\ AllQuestions(evals) # {}
       /\ \E m \in Range(evals.keys) : IsNotAMapping(evals.val[m].evaluation_metadata)
    \/ /\ Len(score_types) > 0
       /\ \E q \in AllQuestions(evals), m \in Range(evals.keys) :
              LET question_data == FindQuestion(ItemsOf(evals.val[m]), q)
              IN  Has(question_data) /\ ~HasScores(Get(question_data))

\* score_types is the set in its iteration order.
create_comparison_table(evals, score_types) ==
    LET order == QuestionOrder(AllQuestions(evals))
        comparison_data ==
            [i \in 1..Len(order) |->
                RowModels(DictSet(EmptyDict, question_id, Str(order[i])),
                          evals, score_types, order[i], 1)]
    IN  DataFrame(comparison_data)


(***************************************************************************)
(* Columns, the exclusion filter and the statistics (pandas).              *)
(***************************************************************************)
\* df[col]: the cells of a column, top to bottom.
Column(df, col) == [i \in 1..Len(df.rows) |-> df.rows[i][col]]

\* df['question_id'].tolist()
QuestionIds(df) == [i \in 1..Len(df.rows) |-> StrOf(df.rows[i][question_id])]

\* comparison_df[~comparison_df['question_id'].isin(excluded_questions)]
Filter(df, excluded) ==
    [columns |-> df.columns,
     rows    |-> SelectSeq(df.rows, LAMBDA r : StrOf(r[question_id]) \notin excluded)]

\* The values quantile() and median() work on: NaN/None skipped, ascending.
Sample(cells) ==
    LET present == SelectSeq(cells, LAMBDA c : ~IsNone(c))
    IN  SortSeq([i \in 1..Len(present) |-> NumOf(present[i])], LAMBDA a, b : a < b)

\* Series.quantile(k/4), linear interpolation, in quarters (4 times the value);
\* Absent is NaN.
Quantile4(v, k) ==
    IF Len(v) = 0 THEN Absent
    ELSE LET pos4 == (Len(v) - 1) * k
             lo == (pos4 \div 4) + 1
             r == pos4 % 4
         IN  Some(IF r = 0 THEN 4 * v[lo] ELSE 4 * v[lo] + r * (v[lo + 1] - v[lo]))

\* A median that takes the lower of the two middle values.
Median4Lower(v) ==
    IF Len(v) = 0 THEN Absent
    ELSE Some(4 * v[(Len(v) + 1) \div 2])

\* Series.median(), in quarters; Absent is NaN.
Median4(v) ==
    IF Len(v) = 0 THEN Absent
    ELSE IF Len(v) % 2 = 1 THEN Some(4 * v[(Len(v) + 1) \div 2])
    ELSE Some(2 * (v[Len(v) \div 2] + v[(Len(v) \div 2) + 1]))

\* str(n) for n >= 0.
RECURSIVE Digits(_)
Digits(n) == IF n < 10 THEN <<48 + n>> ELSE Digits(n \div 10) \o <<48 + (n % 10)>>

\* f"{x:.2f}" for x given in quarters (x >= 0), "nan" for NaN.
Fmt2f(x4) ==
    IF ~Has(x4) THEN <<110, 97, 110>>
    ELSE LET h == 25 * Get(x4)
         IN  Digits(h \div 100) \o <<46, 48 + ((h % 100) \div 10), 48 + (h % 10)>>

\* f"Q25: {..:.2f} | Median: {..:.2f} | Q75: {..:.2f}"
FormatStats(q25, median, q75) ==
    <<81, 50, 53, 58, 32>> \o Fmt2f(q25)
    \o <<32, 124, 32, 77, 101, 100, 105, 97, 110, 58, 32>> \o Fmt2f(median)
    \o <<32, 124, 32, 81, 55, 53, 58, 32>> \o Fmt2f(q75)

\* stats_str of the column `cells` of filtered_df
StatsStr(cells) ==
    FormatStats(Quantile4(Sample(cells), 1), Median4(Sample(cells)),
                Quantile4(Sample(cells), 3))

\* quantile() and median() raise on a column that holds a str.
StatsRaises(cells) == \E i \in 1..Len(cells) : IsStr(cells[i])

(***************************************************************************)
(* str.replace('_', ' ').title()                                           *)
(***************************************************************************)
IsLower(c) == c >= 97 /\ c <= 122
IsUpper(c) == c >= 65 /\ c <= 90
IsCased(c) == IsLower(c) \/ IsUpper(c)

Title(s) ==
    LET spaced == [i \in 1..Len(s) |-> IF s[i] = 95 THEN 32 ELSE s[i]]
    IN  [i \in 1..Len(s) |->
            IF ~IsCased(spaced[i]) THEN spaced[i]
            ELSE IF i > 1 /\ IsCased(spaced[i - 1])
                 THEN (IF IsUpper(spaced[i]) THEN spaced[i] + 32 ELSE spaced[i])
                 ELSE (IF IsLower(spaced[i]) THEN spaced[i] - 32 ELSE spaced[i])]

(***************************************************************************)
(* The summary table (main, "Calculate statistics for each model").        *)
(***************************************************************************)
\* for score_type in common_score_types, from position i on.
RECURSIVE SummaryScores(_, _, _, _, _)
SummaryScores(model_data, model_name, score_types, filtered, i) ==
    IF i > Len(score_types) THEN model_data
    ELSE SummaryScores(
             DictSet(model_data, Title(score_types[i]),
                     Str(StatsStr(Column(filtered, ColName(model_name, score_types[i]))))),
             model_name, score_types, filtered, i + 1)

\* The model_data of one model.
SummaryRow(model_name, score_types, full, filtered) ==
    SummaryScores(
        DictSet(DictSet(EmptyDict, Model, Str(model_name)),
                Evaluator, full.rows[1][ColName(model_name, evaluator)]),
        model_name, score_types, filtered, 1)

\* summary_df
Summary(model_names, score_types, full, filtered) ==
    DataFrame([m \in 1..Len(model_names) |->
                  SummaryRow(model_names[m], score_types, full, filtered)])

\* Some statistic of the summary raises.
SummaryRaises(model_names, score_types, filtered) ==
    \E m \in 1..Len(model_names), i \in 1..Len(score_types) :
        StatsRaises(Column(filtered, ColName(model_names[m], score_types[i])))


(***************************************************************************)
(* DataFrame.to_csv(index=False): the lines, each a sequence of fields.    *)
(***************************************************************************)
\* The dtype pandas gives a column: object with a str or with nothing but
\* None, float64 with numbers and None (None becomes NaN), int64 otherwise.
ColKind(df, col) ==
    LET cells == Column(df, col)
    IN  IF \E i \in 1..Len(cells) : IsStr(cells[i]) THEN "object"
        ELSE IF \A i \in 1..Len(cells) : IsNone(cells[i]) THEN "object"
        ELSE IF \E i \in 1..Len(cells) : IsNone(cells[i]) THEN "float64"
        ELSE "int64"

CsvField(cell, kind) ==
    IF IsNone(cell) THEN <<>>
    ELSE IF IsStr(cell) THEN StrOf(cell)
    ELSE IF kind = "float64" THEN Digits(NumOf(cell)) \o <<46, 48>>
    ELSE Digits(NumOf(cell))

to_csv(df) ==
    <<df.columns>> \o
    [i \in 1..Len(df.rows) |->
        [j \in 1..Len(df.columns) |->
            CsvField(df.rows[i][df.columns[j]], ColKind(df, df.columns[j]))]]

(***************************************************************************)
(* create_score_heatmap and create_score_histogram                         *)
(***************************************************************************)
\* col.endswith(suffix)
EndsWith(s, suffix) ==
    /\ Len(s) >= Len(suffix)
    /\ SubSeq(s, Len(s) - Len(suffix) + 1, Len(s)) = suffix

\* s.replace(pat, "") for a non-empty pat
RECURSIVE Remove(_, _)
Remove(s, pat) ==
    IF Len(s) < Len(pat) THEN s
    ELSE IF SubSeq(s, 1, Len(pat)) = pat THEN Remove(SubSeq(s, Len(pat) + 1, Len(s)), pat)
    ELSE <<s[1]>> \o Remove(Tail(s), pat)

\* Heatmaps drawn from the filtered table.
HeatmapSourceFiltered(full, filtered) == filtered

\* The table the heatmaps are drawn from: comparison_df, not filtered_df.
HeatmapSource(full, filtered) == full

\* The figure's data: x = model_names, y = df['question_id'], z = df[score_cols].values
create_score_heatmap(df, score_type) ==
    LET score_cols == SelectSeq(df.columns,
                                LAMBDA col : EndsWith(col, Underscore \o score_type))
    IN  [x |-> [j \in 1..Len(score_cols) |-> Remove(score_cols[j], Underscore \o score_type)],
         y |-> QuestionIds(df),
         z |-> [i \in 1..Len(df.rows) |->
                   [j \in 1..Len(score_cols) |-> df.rows[i][score_cols[j]]]]]

\* Traces that keep the missing cells.
create_score_histogram_keeps_missing(model_names, df, score_type) ==
    [m \in 1..Len(model_names) |->
        [name |-> model_names[m],
         x    |-> Column(df, ColName(model_names[m], score_type))]]

\* One trace per model: x = df[col_name].dropna()
create_score_histogram(model_names, df, score_type) ==
    [m \in 1..Len(model_names) |->
        [name |-> model_names[m],
         x    |-> SelectSeq(Column(df, ColName(model_names[m], score_type)),
                            LAMBDA c : ~IsNone(c))]]

(***************************************************************************)
(* main, from "Get common score types" to the end.                         *)
(***************************************************************************)
EmptyDF == [columns |-> <<>>, rows |-> <<>>]
NoFigures == [s \in {} |-> <<>>]

\* The union instead of the intersection.
CommonScoreTypesUnion(schs) ==
    UNION {schs.val[m].score_types : m \in Range(schs.keys)}

\* set.intersection(*[schema['score_types'] for schema in schemas.values()])
CommonScoreTypes(schs) ==
    {s \in UNION {schs.val[m].score_types : m \in Range(schs.keys)} :
        \A m \in Range(schs.keys) : s \in schs.val[m].score_types}

\* A check that never stops the run.
NoCommonIgnored(common) == FALSE

\* if not common_score_types
NoCommon(common) == common = {}

\* The state main leaves behind; what a run did not reach stays empty.
Outcome(st, model_names, common, df, options, excluded, filtered, summary, figures) ==
    [status |-> st,
     common_score_types |-> common,
     comparison_df |-> df,
     exclusion_options |-> options,
     excluded_questions |-> excluded,
     filtered_df |-> filtered,
     summary_df |-> summary,
     summary_csv |-> IF figures THEN to_csv(summary) ELSE <<>>,
     full_csv |-> IF figures THEN to_csv(df) ELSE <<>>,
     heatmaps |-> IF figures
                  THEN [s \in common |-> create_score_heatmap(HeatmapSource(df, filtered), s)]
                  ELSE NoFigures,
     histograms |-> IF figures
                    THEN [s \in common |->
                             create_score_histogram(model_names, filtered, s)]
                    ELSE NoFigures]

\* One run of main on the loaded documents, the exclusion widget holding
\* `excluded` (a subset of the question ids it offers).
RunMain(evals, schs, excluded) ==
    IF Len(schs.keys) = 0
    THEN \* set.intersection() without arguments raises
         Outcome("error", <<>>, {}, EmptyDF, <<>>, {}, EmptyDF, EmptyDF, FALSE)
    ELSE
    LET common == CommonScoreTypes(schs)
        df == create_comparison_table(evals, SetIter(common))
        options == QuestionIds(df)
        filtered == Filter(df, excluded)
    IN  IF NoCommon(common)
        THEN Outcome("no_common", evals.keys, {}, EmptyDF, <<>>, {}, EmptyDF, EmptyDF, FALSE)
        ELSE IF TableRaises(evals, SetIter(common))
        THEN \* comparison_df is never assigned
             Outcome("error", evals.keys, common, EmptyDF, <<>>, {}, EmptyDF, EmptyDF, FALSE)
        ELSE IF Len(df.rows) = 0
        THEN \* comparison_df['question_id'] raises KeyError on the empty frame
             Outcome("error", evals.keys, common, df, <<>>, {}, EmptyDF, EmptyDF, FALSE)
        ELSE IF SummaryRaises(evals.keys, SetIter(common), filtered)
        THEN Outcome("error", evals.keys, common, df, options, excluded, filtered, EmptyDF, FALSE)
        ELSE Outcome("done", evals.keys, common, df, options, excluded, filtered,
                     Summary(evals.keys, SetIter(common), df, filtered), TRUE)


(***************************************************************************)
(* The documents and stores the model starts from.                         *)
(***************************************************************************)
\* Items of the generated documents: a question id twice with different
\* scores, scores of 0, items that lack a score type, ids whose order as
\* strings differs from their order by length.
ItemPool ==
    { Item(Q2, Scores({<<correctness, 8>>, <<v2_correctness, 6>>})),
      Item(Q2, Scores({<<correctness, 0>>})),
      Item(Q10, Scores({<<v2_correctness, 0>>})) }

\* evaluation_metadata and evaluation_criteria of the generated documents.
HeadPool ==
    { <<Some([k \in {model} |-> gpt]), Absent>>,
      <<Some([k \in {evaluator} |-> alice]), Some(Criteria({correctness, v2_correctness}))>> }

DocPool ==
    { Doc(h[1], h[2], ev) :
        h \in HeadPool,
        ev \in {Absent} \cup {Some(s) : s \in SeqsUpTo(ItemPool, MaxItems)} }

\* The listings of the generated stores: file stems in the order the store lists them.
Listings == {<<>>, <<doc1>>, <<doc1_v2>>, <<doc1, doc1_v2>>, <<doc1_v2, doc1>>}

\* The number of items of a store.
RECURSIVE ItemCount(_, _)
ItemCount(blob, names) ==
    IF names = {} THEN 0
    ELSE LET n == CHOOSE x \in names : TRUE
         IN  (IF Has(blob[n].evaluations) THEN Len(Get(blob[n].evaluations)) ELSE 0)
             + ItemCount(blob, names \ {n})

GeneratedStores ==
    UNION { {[listing |-> l, blob |-> b] :
                b \in {c \in [Range(l) -> DocPool] : ItemCount(c, Range(l)) <= MaxItems}}
            : l \in Listings }

\* The scenario of the specification's testable properties.
ScenarioStore ==
    [listing |-> <<doc1, doc2>>,
     blob |-> [n \in {doc1, doc2} |->
        IF n = doc1
        THEN Doc(Absent, Absent,
                 Some(<<Item(Q1, Scores({<<correctness, 8>>})),
                        Item(Q2, Scores({<<correctness, 6>>}))>>))
        ELSE Doc(Absent, Absent,
                 Some(<<Item(Q1, Scores({<<correctness, 7>>, <<fluency, 9>>})),
                        Item(Q3, Scores({<<correctness, 5>>}))>>))]]

\* Two documents scored on a criterion that is itself called "evaluator".
EvaluatorScoreStore ==
    [listing |-> <<doc1, doc2>>,
     blob |-> [n \in {doc1, doc2} |->
        IF n = doc1
        THEN Doc(Some([k \in {evaluator} |-> alice]), Absent,
                 Some(<<Item(Q1, Scores({<<evaluator, 7>>, <<fluency, 9>>})),
                        Item(Q10, Scores({<<evaluator, 2>>, <<fluency, 1>>}))>>))
        ELSE Doc(Absent, Absent,
                 Some(<<Item(Q2, Scores({<<evaluator, 5>>, <<fluency, 0>>})),
                        Item(Q3, Scores({<<evaluator, 4>>, <<fluency, 4>>}))>>))]]

\* Two documents scored on "fluency" and on "Fluency".
TitleStore ==
    [listing |-> <<doc1, doc2>>,
     blob |-> [n \in {doc1, doc2} |->
        IF n = doc1
        THEN Doc(Absent, Absent,
                 Some(<<Item(Q1, Scores({<<fluency, 4>>, <<Fluency, 8>>}))>>))
        ELSE Doc(Absent, Some(Criteria({fluency, Fluency})),
                 Some(<<Item(Q2, Scores({<<Fluency, 3>>}))>>))]]

\* Files that are not evaluation documents, or defective ones: no JSON
\* object, unreadable, an empty object, a first item without scores, an
\* item without question_id, an evaluation_metadata that is no mapping.
SpecialPool ==
    { JsonList, JsonNumber, Unreadable,
      Doc(Absent, Absent, Absent),
      Doc(Absent, Some(Criteria({correctness})),
          Some(<<Item(Q1, Scores({<<correctness, 5>>}))>>)),
      Doc(Some([k \in {evaluator} |-> alice]), Some(Criteria({correctness})),
          Some(<<ItemNoScores(Q1), Item(Q2, Scores({<<correctness, 3>>, <<fluency, 3>>}))>>)),
      Doc(Absent, Some(Criteria({correctness})),
          Some(<<ItemNoId(Scores({<<correctness, 4>>}))>>)),
      Doc(NotAMapping, Some(Criteria({correctness})),
          Some(<<Item(Q2, Scores({<<correctness, 7>>}))>>)) }

\* Stores of two files drawn from them.
SpecialStores ==
    {[listing |-> <<doc1, doc2>>, blob |-> b] : b \in [{doc1, doc2} -> SpecialPool]}

StoreChoices == GeneratedStores \cup SpecialStores \cup {ScenarioStore, EvaluatorScoreStore, TitleStore}

\* Every score type some document of the store declares.
TypesOf(st) == UNION {extract_schema(st.blob[n]).score_types : n \in Range(st.listing)}

(***************************************************************************)
(* load_evaluation_data                                                    *)
(***************************************************************************)
\* json_files: the listing, filtered only "if selected_files" (a non-empty selection).
LoadList(listing, selected) ==
    IF selected = {} THEN listing
    ELSE SelectSeq(listing, LAMBDA f : f \in selected)

(***************************************************************************)
(* The tools of the other pages, before their first script run.            *)
(***************************************************************************)
\* No script run of editor/app.py has taken place.
EditorAtRest ==
    /\ questions = <<>>
    /\ questions_json = <<>>
    /\ editor_event = [button |-> "none"]
    /\ editor_message = ""

\* Neither gather/app.py nor annotate/app.py is open.
CollectorAtRest ==
    /\ collect_tool = "none"
    /\ repo_files = <<>>
    /\ issued = {}
    /\ g_session_id = Absent
    /\ g_responses = <<>>
    /\ g_metadata = <<>>
    /\ a_session_id = Absent
    /\ a_annotations = <<>>
    /\ annotator = ""
    /\ selected_topic = "All Topics"
    /\ q_quality = <<>>

\* compare/app.py is not open.
CompareAtRest ==
    /\ session_files = <<>>
    /\ evaluation_schema = Absent
    /\ selected_session_keys = <<>>
    /\ uploaded_file = Absent
    /\ json_text = Absent
    /\ c_comparison_data = <<>>
    /\ responses = <<>>
    /\ compare_stopped = FALSE
    /\ comparison_files = <<>>

\* prompts/app.py is not open.
PromptsAtRest ==
    /\ prompts_file = Absent
    /\ prompts_cache = Absent
    /\ prompt_schema = FALSE
    /\ editing_prompt = Absent
    /\ prompt_upload = Absent
    /\ prompt_text = Absent
    /\ custom_prompt = ""
    /\ prompt_ids = {}
    /\ prompt_event = [button |-> "none"]

(***************************************************************************)
(* The first script run of visualize/app.py.                               *)
(***************************************************************************)
Init ==
    /\ EditorAtRest
    /\ CollectorAtRest
    /\ CompareAtRest
    /\ PromptsAtRest
    /\ store \in StoreChoices
    /\ hashOrder \in Perms(TypesOf(store))
    /\ selected_files = Range(store.listing)
    /\ status = "loading"
    /\ fetch_list = LoadList(store.listing, Range(store.listing))
    /\ fetch_idx = 1
    /\ warnings = <<>>
    /\ evaluations = EmptyDict
    /\ schemas = EmptyDict
    /\ common_score_types = {}
    /\ comparison_df = EmptyDF
    /\ exclusion_options = <<>>
    /\ excluded_questions = {}
    /\ filtered_df = EmptyDF
    /\ summary_df = EmptyDF
    /\ summary_csv = <<>>
    /\ full_csv = <<>>
    /\ heatmaps = NoFigures
    /\ histograms = NoFigures

\* No script run of visualize/app.py has taken place, on an empty repository.
VisualizeAtRest ==
    /\ store = [listing |-> <<>>, blob |-> <<>>]
    /\ hashOrder = <<>>
    /\ selected_files = {}
    /\ status = "loading"
    /\ fetch_list = <<>>
    /\ fetch_idx = 1
    /\ warnings = <<>>
    /\ evaluations = EmptyDict
    /\ schemas = EmptyDict
    /\ common_score_types = {}
    /\ comparison_df = EmptyDF
    /\ exclusion_options = <<>>
    /\ excluded_questions = {}
    /\ filtered_df = EmptyDF
    /\ summary_df = EmptyDF
    /\ summary_csv = <<>>
    /\ full_csv = <<>>
    /\ heatmaps = NoFigures
    /\ histograms = NoFigures

\* What a script run starts from: nothing computed yet.
Cleared ==
    /\ common_score_types' = {}
    /\ comparison_df' = EmptyDF
    /\ filtered_df' = EmptyDF
    /\ summary_df' = EmptyDF
    /\ summary_csv' = <<>>
    /\ full_csv' = <<>>
    /\ heatmaps' = NoFigures
    /\ histograms' = NoFigures

\* The user changes the file selection: the script reruns and loads again.
\* The exclusion widget is taken to start empty in the new run; every
\* exclusion of the new table is then reached through Exclude.
SelectFiles(sel) ==
    /\ status # "loading"
    /\ sel # selected_files
    /\ selected_files' = sel
    /\ status' = "loading"
    /\ fetch_list' = LoadList(store.listing, sel)
    /\ fetch_idx' = 1
    /\ warnings' = <<>>
    /\ evaluations' = EmptyDict
    /\ schemas' = EmptyDict
    /\ exclusion_options' = <<>>
    /\ excluded_questions' = {}
    /\ Cleared
    /\ UNCHANGED <<otherTools, store, hashOrder>>

\* A loop body whose failure throws away what was loaded before.
LoadFileFailureClears(evals, schs, warned, model_name, data) ==
    IF data = Unreadable \/ SchemaRaises(data)
    THEN [evaluations |-> EmptyDict, schemas |-> EmptyDict,
          warnings |-> Append(warned, model_name)]
    ELSE [evaluations |-> DictSet(evals, model_name, data),
          schemas |-> DictSet(schs, model_name, extract_schema(data)),
          warnings |-> warned]

\* The body of "for file_path in json_files" on the maps so far: the try
\* block stops at the statement that raises, the except shows the warning.
LoadFile(evals, schs, warned, model_name, data) ==
    IF data = Unreadable
    THEN [evaluations |-> evals, schemas |-> schs, warnings |-> Append(warned, model_name)]
    ELSE IF SchemaRaises(data)
    THEN [evaluations |-> DictSet(evals, model_name, data), schemas |-> schs,
          warnings |-> Append(warned, model_name)]
    ELSE [evaluations |-> DictSet(evals, model_name, data),
          schemas |-> DictSet(schs, model_name, extract_schema(data)),
          warnings |-> warned]

\* One iteration of "for file_path in json_files".
FetchOne ==
    /\ status = "loading"
    /\ fetch_idx <= Len(fetch_list)
    /\ LET model_name == fetch_list[fetch_idx]
           r == LoadFile(evaluations, schemas, warnings, model_name, store.blob[model_name])
       IN  /\ evaluations' = r.evaluations
           /\ schemas' = r.schemas
           /\ warnings' = r.warnings
    /\ fetch_idx' = fetch_idx + 1
    /\ UNCHANGED <<otherTools, store, hashOrder, selected_files, status, fetch_list,
                   common_score_types, comparison_df, exclusion_options,
                   excluded_questions, filtered_df, summary_df, summary_csv,
                   full_csv, heatmaps, histograms>>

\* The variables main assigns, from an Outcome.
Assign(r) ==
    /\ status' = r.status
    /\ common_score_types' = r.common_score_types
    /\ comparison_df' = r.comparison_df
    /\ exclusion_options' = r.exclusion_options
    /\ excluded_questions' = r.excluded_questions
    /\ filtered_df' = r.filtered_df
    /\ summary_df' = r.summary_df
    /\ summary_csv' = r.summary_csv
    /\ full_csv' = r.full_csv
    /\ heatmaps' = r.heatmaps
    /\ histograms' = r.histograms

\* The rest of main running before the loop over json_files has finished.
AnalyseEarly ==
    /\ status = "loading"
    /\ IF Len(evaluations.keys) = 0
       THEN Assign(Outcome("no_data", <<>>, {}, EmptyDF, <<>>, {}, EmptyDF, EmptyDF, FALSE))
       ELSE Assign(RunMain(evaluations, schemas, {}))
    /\ UNCHANGED <<otherTools, store, hashOrder, selected_files, fetch_list, fetch_idx,
                   warnings, evaluations, schemas>>

\* load_evaluation_data has returned: "if not evaluations" ends the run,
\* otherwise the rest of main runs.
Analyse ==
    /\ status = "loading"
    /\ fetch_idx > Len(fetch_list)
    /\ IF Len(evaluations.keys) = 0
       THEN Assign(Outcome("no_data", <<>>, {}, EmptyDF, <<>>, {}, EmptyDF, EmptyDF, FALSE))
       ELSE Assign(RunMain(evaluations, schemas, {}))
    /\ UNCHANGED <<otherTools, store, hashOrder, selected_files, fetch_list, fetch_idx,
                   warnings, evaluations, schemas>>

\* The user changes the excluded questions: the script reruns; the load and
\* the table come from the st.cache_data caches, the rest of main runs again.
Exclude(excluded) ==
    /\ status \in {"done", "error"}
    /\ Len(exclusion_options) > 0
    /\ excluded # excluded_questions
    /\ Assign(RunMain(evaluations, schemas, excluded))
    /\ UNCHANGED <<otherTools, store, hashOrder, selected_files, fetch_list, fetch_idx,
                   warnings, evaluations, schemas>>

Next ==
    \/ FetchOne
    \/ Analyse
    \/ \E sel \in SUBSET Range(store.listing) : SelectFiles(sel)
    \/ \E excluded \in SUBSET Range(exclusion_options) : Exclude(excluded)

Spec == Init /\ [][Next]_vars


(***************************************************************************)
(* What the claims speak of, read off the state.                           *)
(***************************************************************************)
\* The loaded documents.
Loaded == Range(evaluations.keys)

\* The loaded documents whose schema was extracted.
Schematised == Range(schemas.keys)

\* main got past "Get common score types": the table was built.
TableBuilt ==
    /\ status \in {"done", "error"}
    /\ common_score_types # {}
    /\ ~TableRaises(evaluations, SetIter(common_score_types))

\* The question ids some item of some loaded document carries.
SeenQuestionIds ==
    {q \in {Q1, Q2, Q3, Q10} :
        \E m \in Loaded :
            /\ Has(evaluations.val[m].evaluations)
            /\ \E i \in 1..Len(Get(evaluations.val[m].evaluations)) :
                   Get(evaluations.val[m].evaluations)[i].question_id = q}

\* The positions of the items of document m with question id q.
ItemsFor(m, q) ==
    IF Has(evaluations.val[m].evaluations)
    THEN {i \in 1..Len(Get(evaluations.val[m].evaluations)) :
             Get(evaluations.val[m].evaluations)[i].question_id = q}
    ELSE {}

\* The first item of document m with question id q.
FirstItem(m, q) ==
    Get(evaluations.val[m].evaluations)[CHOOSE i \in ItemsFor(m, q) :
                                            \A j \in ItemsFor(m, q) : i <= j]

\* The row of question q and its cell for document m and score type s.
RowOf(q) ==
    comparison_df.rows[CHOOSE i \in 1..Len(comparison_df.rows) :
                           comparison_df.rows[i][question_id] = Str(q)]
Cell(q, m, s) == RowOf(q)[ColName(m, s)]

(***************************************************************************)
(* C1  The common score types are the intersection of the score types of   *)
(*     the schemas of the loaded documents, and taking one more document   *)
(*     into the intersection never adds a score type.                      *)
(***************************************************************************)
C1_CommonIsIntersection ==
    (status \in {"no_common", "error", "done"} /\ Schematised # {}) =>
        /\ \A s \in TypesOf(store) :
               s \in common_score_types <=>
                   \A m \in Schematised : s \in extract_schema(evaluations.val[m]).score_types
        /\ common_score_types \subseteq TypesOf(store)
        /\ \A d \in DocPool :
               CommonScoreTypes(DictSet(schemas, doc3, extract_schema(d)))
                   \subseteq common_score_types

\* Two documents with different score types and a non-empty intersection.
C1_Witness ==
    /\ status = "done"
    /\ Cardinality(Loaded) = 2
    /\ \E m \in Loaded : schemas.val[m].score_types # common_score_types
    /\ \E d \in DocPool :
           CommonScoreTypes(DictSet(schemas, doc3, extract_schema(d))) # common_score_types

(***************************************************************************)
(* C2  The table has exactly one row per question id that occurs in some   *)
(*     item of some loaded document, no other row, and the rows are in     *)
(*     ascending lexicographic order of the question id.                   *)
(***************************************************************************)
C2_RowsAreSortedUnion ==
    TableBuilt =>
        LET ids == QuestionIds(comparison_df)
        IN  /\ Range(ids) = SeenQuestionIds
            /\ Len(ids) = Cardinality(SeenQuestionIds)
            /\ \A i, j \in 1..Len(ids) : i < j => StrLess(ids[i], ids[j])

\* Q10 and Q2 both occur, one of them twice in a document.
C2_Witness ==
    /\ TableBuilt
    /\ QuestionIds(comparison_df) = <<Q10, Q2>>
    /\ \E m \in Loaded : Cardinality(ItemsFor(m, Q2)) = 2

(***************************************************************************)
(* C3  Building the table again from the same documents and the same set   *)
(*     of score types gives the same rows in the same order, the same      *)
(*     columns and the same cells, whatever order the set is iterated in.  *)
(***************************************************************************)
C3_TableIsDeterministic ==
    TableBuilt =>
        \A order \in Perms(common_score_types) :
            LET again == create_comparison_table(evaluations, order)
            IN  /\ again.rows = comparison_df.rows
                /\ Range(again.columns) = Range(comparison_df.columns)
                /\ Len(again.columns) = Len(comparison_df.columns)

\* A table with rows and two score types, which can be iterated in two orders.
C3_Witness ==
    /\ TableBuilt
    /\ Cardinality(common_score_types) = 2
    /\ Len(comparison_df.rows) = 2
    /\ Cardinality(Loaded) = 2


(***************************************************************************)
(* C4  A question that no item of document m carries has a missing cell    *)
(*     for m and every common score type, whatever is excluded.            *)
(***************************************************************************)
C4_AbsentQuestionIsMissing ==
    TableBuilt =>
        \A q \in SeenQuestionIds, m \in Loaded, s \in common_score_types :
            ItemsFor(m, q) = {} => IsNone(Cell(q, m, s))

(***************************************************************************)
(* C5  With any exclusion set the table, the exported full comparison and  *)
(*     the heatmaps are those of the run that excludes nothing; only the   *)
(*     statistics depend on the exclusion.                                 *)
(***************************************************************************)
C5_ExclusionChangesStatisticsOnly ==
    status = "done" =>
        LET plain == RunMain(evaluations, schemas, {})
        IN  /\ comparison_df = plain.comparison_df
            /\ full_csv = plain.full_csv
            /\ heatmaps = plain.heatmaps
            /\ Len(comparison_df.rows) = Cardinality(SeenQuestionIds)

\* A question is excluded, and the statistics differ from those of the plain run.
C5_Witness ==
    /\ status = "done"
    /\ excluded_questions # {}
    /\ Len(comparison_df.rows) = 2
    /\ summary_df # RunMain(evaluations, schemas, {}).summary_df

(***************************************************************************)
(* C6  The statistics shown for document m and common score type s are the *)
(*     25th percentile, the median and the 75th percentile of the numbers  *)
(*     in the cells of m and s over the rows that are not excluded: a      *)
(*     missing cell is left out, a score of 0 counts.                      *)
(***************************************************************************)
\* The numbers in the cells of m and s over the rows that are not excluded, ascending.
KeptValues(m, s) ==
    LET kept == {i \in 1..Len(comparison_df.rows) :
                    /\ StrOf(comparison_df.rows[i][question_id]) \notin excluded_questions
                    /\ ~IsNone(comparison_df.rows[i][ColName(m, s)])}
        count(n) == Cardinality({i \in kept : NumOf(comparison_df.rows[i][ColName(m, s)]) = n})
    IN  [n \in 0..9 |-> count(n)]

\* The sorted sequence with bag[n] copies of n, for n = lo, lo + 1, ..., 9.
RECURSIVE Ascending(_, _)
Ascending(bag, lo) ==
    IF lo > 9 THEN <<>>
    ELSE [i \in 1..bag[lo] |-> lo] \o Ascending(bag, lo + 1)

\* The summary row of document m.
SummaryRowOf(m) ==
    summary_df.rows[CHOOSE i \in 1..Len(summary_df.rows) : summary_df.rows[i][Model] = Str(m)]

C6_StatisticsOverKeptValues ==
    status = "done" =>
        \A m \in Loaded, s \in common_score_types :
            LET v == Ascending(KeptValues(m, s), 0)
            IN  SummaryRowOf(m)[Title(s)] =
                    Str(FormatStats(Quantile4(v, 1), Median4(v), Quantile4(v, 3)))

\* A row is excluded; of the rows kept, a cell is missing, a cell holds 0
\* and a cell holds another number.
C6_Witness ==
    /\ status = "done"
    /\ excluded_questions # {}
    /\ \E m \in Loaded, s \in common_score_types :
           /\ KeptValues(m, s)[0] >= 1
           /\ \E n \in 1..9 : KeptValues(m, s)[n] >= 1
           /\ \E i \in 1..Len(filtered_df.rows) : IsNone(filtered_df.rows[i][ColName(m, s)])

(***************************************************************************)
(* C7  The scenario: doc1 with Q1 {correctness: 8} and Q2 {correctness: 6},*)
(*     doc2 with Q1 {correctness: 7, fluency: 9} and Q3 {correctness: 5}.  *)
(*     The common score types are {correctness}, the rows are Q1, Q2, Q3,  *)
(*     the cell of Q2, doc2 and correctness is missing, the median of      *)
(*     doc1's correctness is 7 with nothing excluded and 8 with Q2         *)
(*     excluded, the table having 3 rows in both cases.                    *)
(***************************************************************************)
\* pat occurs in s
Contains(s, pat) ==
    \E i \in 1..(Len(s) - Len(pat) + 1) : SubSeq(s, i, i + Len(pat) - 1) = pat

\* "Median: 7.00 |" and "Median: 8.00 |"
Median7 == <<77, 101, 100, 105, 97, 110, 58, 32, 55, 46, 48, 48, 32, 124>>
Median8 == <<77, 101, 100, 105, 97, 110, 58, 32, 56, 46, 48, 48, 32, 124>>

C7_Scenario ==
    (store = ScenarioStore /\ Loaded = {doc1, doc2} /\ status # "loading") =>
        /\ status = "done"
        /\ common_score_types = {correctness}
        /\ QuestionIds(comparison_df) = <<Q1, Q2, Q3>>
        /\ IsNone(Cell(Q2, doc2, correctness))
        /\ excluded_questions = {} =>
               Contains(StrOf(SummaryRowOf(doc1)[Title(correctness)]), Median7)
        /\ excluded_questions = {Q2} =>
               /\ Contains(StrOf(SummaryRowOf(doc1)[Title(correctness)]), Median8)
               /\ Len(comparison_df.rows) = 3

\* The scenario has run with Q2 excluded.
C7_Witness ==
    /\ store = ScenarioStore
    /\ Loaded = {doc1, doc2}
    /\ status = "done"
    /\ excluded_questions = {Q2}

(***************************************************************************)
(* C8  Of several items of document m with the same question id, the first *)
(*     gives the score cells of that row and document; the later ones      *)
(*     change no cell of the table.                                        *)
(***************************************************************************)
\* The documents without the items that repeat an earlier question id.
WithoutLaterDuplicates ==
    [keys |-> evaluations.keys,
     val  |-> [m \in Loaded |->
         [evaluations.val[m] EXCEPT !.evaluations =
             IF Has(@)
             THEN Some(SelectSeq(Get(@),
                     LAMBDA it : it = FirstItem(m, it.question_id)))
             ELSE @]]]

C8_FirstDuplicateWins ==
    TableBuilt =>
        /\ \A m \in Loaded, q \in SeenQuestionIds, s \in common_score_types :
               Cardinality(ItemsFor(m, q)) >= 2 =>
                   Cell(q, m, s) =
                       IF s \in DOMAIN FirstItem(m, q).scores
                       THEN Num(FirstItem(m, q).scores[s])
                       ELSE None
        /\ comparison_df =
               create_comparison_table(WithoutLaterDuplicates, SetIter(common_score_types))

(***************************************************************************)
(* C9  Where document m has an item for question q, the cell of q, m and a *)
(*     common score type s is the score of that (first) item for s, and is *)
(*     missing when the item has no such score; a score of 0 is the number *)
(*     0, which is not the missing cell.                                   *)
(***************************************************************************)
C9_CellIsItemScore ==
    TableBuilt =>
        \A m \in Loaded, q \in SeenQuestionIds, s \in common_score_types :
            ItemsFor(m, q) # {} =>
                /\ s \in DOMAIN FirstItem(m, q).scores =>
                       /\ Cell(q, m, s) = Num(FirstItem(m, q).scores[s])
                       /\ ~IsNone(Cell(q, m, s))
                /\ s \notin DOMAIN FirstItem(m, q).scores => IsNone(Cell(q, m, s))

(***************************************************************************)
(* C10 In every row the evaluator cell of document m is the evaluator of   *)
(*     m's evaluation_metadata, or "unknown" without one, also in the rows *)
(*     of questions m did not evaluate.                                    *)
(***************************************************************************)
C10_EvaluatorCell ==
    TableBuilt =>
        \A m \in Loaded, i \in 1..Len(comparison_df.rows) :
            comparison_df.rows[i][ColName(m, evaluator)] =
                IF Has(evaluations.val[m].evaluation_metadata)
                   /\ evaluator \in DOMAIN Get(evaluations.val[m].evaluation_metadata)
                THEN Str(Get(evaluations.val[m].evaluation_metadata)[evaluator])
                ELSE Str(unknown)

(***************************************************************************)
(* C11 Every row of the table has the same columns: question_id, one       *)
(*     evaluator column per loaded document and one score column per pair  *)
(*     of a loaded document and a common score type; different pairs have  *)
(*     different columns and no score column is an evaluator column, so    *)
(*     there are D evaluator columns and D times S score columns.          *)
(***************************************************************************)
\* The evaluator columns and the score columns of the table, by what they are for.
EvaluatorColumns == {ColName(m, evaluator) : m \in Loaded}
ScoreColumns == {ColName(m, s) : m \in Loaded, s \in common_score_types}

C11_ColumnsDistinct ==
    (TableBuilt /\ Len(comparison_df.rows) > 0) =>
        /\ \A i \in 1..Len(comparison_df.rows) :
               DOMAIN comparison_df.rows[i] =
                   {question_id} \cup EvaluatorColumns \cup ScoreColumns
        /\ Cardinality(EvaluatorColumns) = Cardinality(Loaded)
        /\ Cardinality(ScoreColumns) =
               Cardinality(Loaded) * Cardinality(common_score_types)
        /\ EvaluatorColumns \cap ScoreColumns = {}
        /\ Len(comparison_df.columns) =
               1 + Cardinality(Loaded) * (1 + Cardinality(common_score_types))

(***************************************************************************)
(* C12 For a document that is a mapping, the score types of its schema are *)
(*     the keys of evaluation_criteria (none if absent) together with the  *)
(*     keys of the scores of the first item of evaluations (if there is a  *)
(*     first item and it has scores); a score key that only later items    *)
(*     carry is not a score type.                                          *)
(***************************************************************************)
\* The keys of evaluation_criteria of the loaded document m.
CriteriaKeys(m) ==
    IF Has(evaluations.val[m].evaluation_criteria)
    THEN DOMAIN Get(evaluations.val[m].evaluation_criteria)
    ELSE {}

\* The items of the loaded document m.
ItemsIn(m) ==
    IF Has(evaluations.val[m].evaluations) THEN Get(evaluations.val[m].evaluations) ELSE <<>>

\* The score keys of item i of the loaded document m.
ScoreKeys(m, i) ==
    IF "scores" \in DOMAIN ItemsIn(m)[i] THEN DOMAIN ItemsIn(m)[i].scores ELSE {}

Fetched ==
    {fetch_list[i] : i \in {j \in 1..Len(fetch_list) :
                              j < fetch_idx /\ store.blob[fetch_list[j]] # Unreadable}}

C13_SchemaFailsIffNotMapping ==
    \A f \in Fetched :
        /\ f \in Schematised <=> IsMapping(store.blob[f])
        /\ (f \in Schematised /\ IsMapping(store.blob[f])) =>
               LET d == store.blob[f]
                   items == IF Has(d.evaluations) THEN Get(d.evaluations) ELSE <<>>
               IN  /\ schemas.val[f].metadata_fields =
                          (IF Has(d.evaluation_metadata)
                           THEN DOMAIN Get(d.evaluation_metadata) ELSE {})
                   /\ schemas.val[f].evaluation_fields =
                          (IF Len(items) = 0 THEN {}
                           ELSE {k \in {question_id, scoresKey} :
                                    \/ k = question_id /\ "question_id" \in DOMAIN items[1]
                                    \/ k = scoresKey /\ "scores" \in DOMAIN items[1]})
                   /\ (~Has(d.evaluation_criteria)
                       /\ (Len(items) = 0 \/ "scores" \notin DOMAIN items[1]))
                          => schemas.val[f].score_types = {}

(***************************************************************************)
(* C14 A document that is no mapping is skipped with a warning: it is in   *)
(*     neither evaluations nor schemas, it takes no part in the            *)
(*     intersection or the table, and the other documents are loaded and   *)
(*     compared as if it had not been there.                               *)
(***************************************************************************)
\* The maps restricted to the loaded documents that are mappings.
MappingsOnly(d) ==
    LET keep == SelectSeq(d.keys, LAMBDA m : IsMapping(store.blob[m]))
    IN  [keys |-> keep, val |-> [m \in Range(keep) |-> d.val[m]]]

C14_MalformedDocumentSkipped ==
    (status # "loading") =>
        /\ \A f \in Range(fetch_list) :
               store.blob[f] \in {JsonList, JsonNumber} =>
                   /\ f \notin Loaded
                   /\ f \notin Schematised
                   /\ f \in Range(warnings)
        /\ Len(MappingsOnly(evaluations).keys) > 0 =>
               LET alone == RunMain(MappingsOnly(evaluations), MappingsOnly(schemas),
                                    excluded_questions)
               IN  /\ status = alone.status
                   /\ common_score_types = alone.common_score_types
                   /\ comparison_df = alone.comparison_df

(***************************************************************************)
(* C15 A file that cannot be fetched or parsed is reported and left out,   *)
(*     and every other selected file is still loaded: what the load        *)
(*     returns is what loading the readable files alone returns.           *)
(***************************************************************************)
\* json_files without the unreadable files.
Readable == SelectSeq(fetch_list, LAMBDA f : store.blob[f] # Unreadable)

C15_FetchFailureIsolated ==
    (status # "loading") =>
        /\ \A f \in Range(fetch_list) \ Range(Readable) :
               f \in Range(warnings) /\ f \notin Loaded /\ f \notin Schematised
        /\ evaluations.keys = Readable
        /\ \A f \in Range(Readable) : evaluations.val[f] = store.blob[f]
        /\ Schematised \subseteq Range(Readable)
        /\ \A f \in Schematised : schemas.val[f] = extract_schema(store.blob[f])

\* The first file is unreadable, the second is loaded and compared.
C15_Witness ==
    /\ status = "done"
    /\ Len(fetch_list) = 2
    /\ store.blob[fetch_list[1]] = Unreadable
    /\ warnings = <<fetch_list[1]>>
    /\ Loaded = {fetch_list[2]}
    /\ Len(comparison_df.rows) > 0

(***************************************************************************)
(* C16 When the score types of the loaded documents have nothing in        *)
(*     common, the run ends in the reported state "no common score types": *)
(*     no table, no statistics, no export and no figure is built, and the  *)
(*     run does not end in an exception.                                   *)
(***************************************************************************)
\* The score types every extracted schema has.
InEverySchema ==
    {s \in TypesOf(store) : \A m \in Schematised : s \in schemas.val[m].score_types}

C16_NoCommonScoreTypes ==
    (status # "loading" /\ Schematised # {} /\ InEverySchema = {}) =>
        /\ status = "no_common"
        /\ common_score_types = {}
        /\ comparison_df = EmptyDF
        /\ filtered_df = EmptyDF
        /\ summary_df = EmptyDF
        /\ summary_csv = <<>>
        /\ full_csv = <<>>
        /\ heatmaps = NoFigures
        /\ histograms = NoFigures

\* Two documents with items, each with score types, none shared.
C16_Witness ==
    /\ status = "no_common"
    /\ Cardinality(Schematised) = 2
    /\ \A m \in Schematised :
           /\ schemas.val[m].score_types # {}
           /\ IsMapping(evaluations.val[m])
           /\ Len(ItemsIn(m)) > 0

(***************************************************************************)
(* C17 With no file selected the run ends with an empty table and without  *)
(*     error: no document is loaded, no intersection over zero schemas is  *)
(*     computed and no failure is reported.                                *)
(***************************************************************************)
C17_EmptySelection ==
    (selected_files = {} /\ status # "loading") =>
        /\ Loaded = {}
        /\ Schematised = {}
        /\ warnings = <<>>
        /\ comparison_df = EmptyDF
        /\ status \notin {"error", "no_data", "no_common"}

(***************************************************************************)
(* C18 If every cell of document m and common score type s in the rows     *)
(*     that are not excluded is missing (also when every row is excluded), *)
(*     the three percentiles of m and s are shown as undefined, the        *)
(*     summary is still computed and holds the statistics of every other   *)
(*     document and score type.                                            *)
(***************************************************************************)
\* No row that is not excluded has a value for m and s.
AllMissing(m, s) ==
    \A i \in 1..Len(comparison_df.rows) :
        StrOf(comparison_df.rows[i][question_id]) \notin excluded_questions
            => IsNone(comparison_df.rows[i][ColName(m, s)])

\* "Q25: nan | Median: nan | Q75: nan"
UndefinedStats ==
    <<81, 50, 53, 58, 32, 110, 97, 110, 32, 124, 32,
      77, 101, 100, 105, 97, 110, 58, 32, 110, 97, 110, 32, 124, 32,
      81, 55, 53, 58, 32, 110, 97, 110>>

C18_AllMissingIsUndefined ==
    (TableBuilt /\ Len(comparison_df.rows) > 0) =>
        \A m \in Loaded, s \in common_score_types :
            AllMissing(m, s) =>
                /\ status = "done"
                /\ Len(summary_df.rows) = Cardinality(Loaded)
                /\ SummaryRowOf(m)[Title(s)] = Str(UndefinedStats)
                /\ \A m2 \in Loaded, s2 \in common_score_types :
                       /\ IsStr(SummaryRowOf(m2)[Title(s2)])
                       /\ ~AllMissing(m2, s2) =>
                              SummaryRowOf(m2)[Title(s2)] # Str(UndefinedStats)

\* Rows are kept, a document has no value for a score type in them, and
\* another document has values.
C18_Witness ==
    /\ status = "done"
    /\ Len(filtered_df.rows) > 0
    /\ \E m \in Loaded, s \in common_score_types : AllMissing(m, s)
    /\ \E m \in Loaded, s \in common_score_types : ~AllMissing(m, s)

(***************************************************************************)
(* C19 The columns of the exported comparison table and of the exported    *)
(*     summary are in a fixed order: the documents ascending by document   *)
(*     id (the summary's rows likewise) and, within a document, the score  *)
(*     types ascending, whatever the order of the store's listing and of   *)
(*     the iteration of the set of common score types.                     *)
(***************************************************************************)
\* The position of a field in the header line of an export.
PositionIn(header, name) == CHOOSE i \in 1..Len(header) : header[i] = name

C19_ColumnOrder ==
    status = "done" =>
        /\ \A m1, m2 \in Loaded, s1, s2 \in common_score_types :
               (StrLess(m1, m2) \/ (m1 = m2 /\ StrLess(s1, s2))) =>
                   PositionIn(full_csv[1], ColName(m1, s1))
                       < PositionIn(full_csv[1], ColName(m2, s2))
        /\ \A s1, s2 \in common_score_types :
               StrLess(s1, s2) =>
                   PositionIn(summary_csv[1], Title(s1)) < PositionIn(summary_csv[1], Title(s2))
        /\ \A i, j \in 1..Len(summary_df.rows) :
               i < j => StrLess(StrOf(summary_df.rows[i][Model]),
                                StrOf(summary_df.rows[j][Model]))

(***************************************************************************)
(* C20 As claimed: before the fetch of every selected document has         *)
(*     finished no schema is extracted, no intersection is computed and no *)
(*     table is built; the intersection is taken over the schemas of all   *)
(*     loaded documents.                                                   *)
(***************************************************************************)
\* The loop over json_files has dealt with every file.
AllFetched == fetch_idx > Len(fetch_list)

\* Nothing of main after the load has been computed.
NothingComputed ==
    /\ common_score_types = {}
    /\ comparison_df = EmptyDF
    /\ filtered_df = EmptyDF
    /\ summary_df = EmptyDF
    /\ heatmaps = NoFigures
    /\ histograms = NoFigures

C20_NothingBeforeAllFetched ==
    /\ ~AllFetched => (Schematised = {} /\ NothingComputed)
    /\ (status \in {"no_common", "error", "done"} /\ Schematised # {}) =>
           /\ Schematised = Loaded
           /\ common_score_types = InEverySchema

(***************************************************************************)
(* C20 As amended: no intersection is computed and no table is built       *)
(*     before the loop over the selected documents has finished; the       *)
(*     schema of a document is extracted inside the loop, right after the  *)
(*     fetch of that document and before the next fetch; the intersection  *)
(*     is taken over all schemas extracted in the loop.                    *)
(***************************************************************************)
C20_IntersectionAfterAllFetched ==
    /\ status = "loading" => NothingComputed
    /\ status # "loading" => AllFetched
    /\ \A i \in 1..Len(fetch_list) :
           LET data == store.blob[fetch_list[i]]
           IN  fetch_list[i] \in Schematised <=>
                   (i < fetch_idx /\ data # Unreadable /\ ~SchemaRaises(data))
    /\ (status \in {"no_common", "error", "done"} /\ Schematised # {}) =>
           common_score_types = InEverySchema

\* The first of two documents has its schema, the second is not fetched yet.
C20_Witness ==
    /\ status = "loading"
    /\ Len(fetch_list) = 2
    /\ fetch_idx = 2
    /\ Schematised = {fetch_list[1]}
    /\ schemas.val[fetch_list[1]].score_types # {}

(***************************************************************************)
(* C21 The heatmap of a common score type s has one row per question id of *)
(*     the table and one column per loaded document, the column of         *)
(*     document m holding the cells of m and s, a missing cell staying     *)
(*     missing; no column of another score type is in the matrix of s.     *)
(***************************************************************************)
C21_HeatmapMatrix ==
    status = "done" =>
        \A s \in common_score_types :
            /\ heatmaps[s].y = QuestionIds(comparison_df)
            /\ Len(heatmaps[s].z) = Len(comparison_df.rows)
            /\ Len(heatmaps[s].x) = Cardinality(Loaded)
            /\ Range(heatmaps[s].x) = Loaded
            /\ \A i \in 1..Len(comparison_df.rows), j \in 1..Len(heatmaps[s].x) :
                   heatmaps[s].z[i][j] = comparison_df.rows[i][ColName(heatmaps[s].x[j], s)]

(***************************************************************************)
(* C22 The histogram of a common score type s shows, for every loaded      *)
(*     document m, exactly the values of the cells of m and s that are not *)
(*     missing, over the rows that are not excluded; it is empty when      *)
(*     there is no such value, and building it does not fail.              *)
(***************************************************************************)
\* The cells of m and s that hold a value, over the rows not excluded, top to bottom.
RECURSIVE ShownValues(_, _, _)
ShownValues(m, s, i) ==
    IF i > Len(comparison_df.rows) THEN <<>>
    ELSE LET row == comparison_df.rows[i]
         IN  (IF StrOf(row[question_id]) \notin excluded_questions /\ ~IsNone(row[ColName(m, s)])
              THEN <<row[ColName(m, s)]>> ELSE <<>>)
             \o ShownValues(m, s, i + 1)

C22_HistogramValues ==
    (TableBuilt /\ Len(comparison_df.rows) > 0) =>
        /\ status = "done"
        /\ \A s \in common_score_types :
               /\ Len(histograms[s]) = Len(evaluations.keys)
               /\ \A k \in 1..Len(evaluations.keys) :
                      /\ histograms[s][k].name = evaluations.keys[k]
                      /\ histograms[s][k].x = ShownValues(evaluations.keys[k], s, 1)

\* A row is excluded and a value of some document went with it, while
\* some document has a missing cell in a row that is kept.
C22_Witness ==
    /\ status = "done"
    /\ excluded_questions # {}
    /\ \E s \in common_score_types, k \in 1..Len(evaluations.keys) :
           Len(histograms[s][k].x) <
               Len(Sample(Column(comparison_df, ColName(evaluations.keys[k], s))))
    /\ \E s \in common_score_types, k \in 1..Len(evaluations.keys) :
           /\ histograms[s][k].x # <<>>
           /\ Len(histograms[s][k].x) < Len(filtered_df.rows)

(***************************************************************************)
(* C23 A defect of the items of one document (an item without scores, an   *)
(*     item without question_id, an evaluation_metadata that is no         *)
(*     mapping) does not abort the run: the table is built, and the        *)
(*     defective field counts as absent (a missing cell, "unknown").       *)
(***************************************************************************)
\* The loaded document m is a mapping with such a defect.
HasItemDefect(m) ==
    /\ IsMapping(evaluations.val[m])
    /\ \/ IsNotAMapping(evaluations.val[m].evaluation_metadata)
       \/ \E i \in 1..Len(ItemsIn(m)) :
              "scores" \notin DOMAIN ItemsIn(m)[i] \/ "question_id" \notin DOMAIN ItemsIn(m)[i]

\* Every loaded document is a mapping, they share a score type and some
\* item carries a question id: without the defect a table would be built.
TableExpected ==
    /\ status # "loading"
    /\ Loaded # {}
    /\ \A m \in Loaded : IsMapping(evaluations.val[m])
    /\ \E s \in TypesOf(store) :
           \A m \in Loaded : s \in CriteriaKeys(m) \cup
                                   (IF Len(ItemsIn(m)) > 0 THEN ScoreKeys(m, 1) ELSE {})
    /\ \E m \in Loaded : \E i \in 1..Len(ItemsIn(m)) : "question_id" \in DOMAIN ItemsIn(m)[i]

C23_ItemDefectsTolerated ==
    (TableExpected /\ \E m \in Loaded : HasItemDefect(m)) =>
        /\ status = "done"
        /\ Len(comparison_df.rows) > 0
        /\ \A m \in Loaded :
               IsNotAMapping(evaluations.val[m].evaluation_metadata) =>
                   \A i \in 1..Len(comparison_df.rows) :
                       comparison_df.rows[i][ColName(m, evaluator)] = Str(unknown)

(***************************************************************************)
(* C26 When the load has returned, evaluations and schemas have the same   *)
(*     keys: every document handed to the table has a schema that took     *)
(*     part in the intersection, also when a schema extraction failed.     *)
(***************************************************************************)
C26_SameKeys ==
    status # "loading" =>
        /\ Loaded = Schematised
        /\ evaluations.keys = schemas.keys

(***************************************************************************)
(* C27 The summary has, for every loaded document, one statistics entry    *)
(*     per common score type: the display names of two distinct common     *)
(*     score types ('_' replaced by ' ', title-cased) are distinct, and    *)
(*     the statistics of no score type are overwritten by another's.       *)
(***************************************************************************)
C27_OneEntryPerScoreType ==
    status = "done" =>
        /\ \A s1, s2 \in common_score_types : s1 # s2 => Title(s1) # Title(s2)
        /\ \A m \in Loaded, s \in common_score_types :
               SummaryRowOf(m)[Title(s)] =
                   Str(StatsStr(Column(filtered_df, ColName(m, s))))

(***************************************************************************)
(* editor/app.py: the question editor.  A question is a record             *)
(* [id, question, topic], the list of topics a sequence of str.            *)
(***************************************************************************)
\* str.strip(): the whitespace code points below 256.
IsSpace(c) == c \in {9, 10, 11, 12, 13, 28, 29, 30, 31, 32, 133, 160}

RECURSIVE strip(_)
strip(s) ==
    IF Len(s) = 0 THEN s
    ELSE IF IsSpace(s[1]) THEN strip(Tail(s))
    ELSE IF IsSpace(s[Len(s)]) THEN strip(SubSeq(s, 1, Len(s) - 1))
    ELSE s

\* s.split(","): the pieces between the commas, at least one.
RECURSIVE split(_, _)
split(s, piece) ==
    IF Len(s) = 0 THEN <<piece>>
    ELSE IF s[1] = 44 THEN <<piece>> \o split(Tail(s), <<>>)
    ELSE split(Tail(s), Append(piece, s[1]))

\* [t.strip() for t in text.split(",") if t.strip()]
ParseTopics(text) ==
    LET pieces == split(text, <<>>)
        kept   == SelectSeq(pieces, LAMBDA t : Len(strip(t)) > 0)
    IN  [i \in 1..Len(kept) |-> strip(kept[i])]

\* An Add that appends whatever the id.
add_question_unchecked(qs, new_id, new_question, new_topics) ==
    [questions |-> Append(qs, [id |-> new_id, question |-> new_question,
                               topic |-> ParseTopics(new_topics)]),
     message   |-> "Question added."]

\* The body of "if submitted:" of add_question_form.
add_question(qs, new_id, new_question, new_topics) ==
    IF ~\E i \in 1..Len(qs) : qs[i].id = new_id
    THEN [questions |-> Append(qs, [id |-> new_id, question |-> new_question,
                                    topic |-> ParseTopics(new_topics)]),
          message   |-> "Question added."]
    ELSE [questions |-> qs, message |-> "ID already exists."]

\* The body of 'if st.button("Update")' of the question at position idx.
update_question(qs, idx, edited_question, edited_topics) ==
    [qs EXCEPT ![idx] = [@ EXCEPT !.question = edited_question,
                                  !.topic = ParseTopics(edited_topics)]]

\* list.pop(idx)
pop(qs, idx) == [i \in 1..(Len(qs) - 1) |-> IF i < idx THEN qs[i] ELSE qs[i + 1]]

\* The values typed into the forms: ids, question texts, topic lines.
IdPool == {Q1, Q2}
TextPool == {<<97>>, <<98>>}
TopicsPool == {<<>>, <<32, 120, 32, 44, 44>>}

QuestionPool ==
    {[id |-> i, question |-> q, topic |-> ParseTopics(t)] :
        i \in IdPool, q \in TextPool, t \in TopicsPool}

\* questions.json as load_questions finds it; nothing has been clicked.
EditorInit ==
    /\ VisualizeAtRest
    /\ CollectorAtRest
    /\ CompareAtRest
    /\ PromptsAtRest
    /\ questions_json \in SeqsUpTo(QuestionPool, MaxQuestions)
    /\ questions = questions_json
    /\ editor_event = [button |-> "none"]
    /\ editor_message = ""

\* "Add Question" is submitted with the values of the form.
EditorAdd(new_id, new_question, new_topics) ==
    /\ LET r == add_question(questions, new_id, new_question, new_topics)
       IN  /\ Len(r.questions) <= MaxQuestions
           /\ questions' = r.questions
           /\ editor_message' = r.message
    /\ editor_event' = [button |-> "Add Question", new_id |-> new_id]
    /\ UNCHANGED <<besideEditor, questions_json>>

\* "Update" of the question at position idx is clicked.
EditorUpdate(idx, edited_question, edited_topics) ==
    /\ idx \in 1..Len(questions)
    /\ questions' = update_question(questions, idx, edited_question, edited_topics)
    /\ editor_message' = "Question updated."
    /\ editor_event' = [button |-> "Update", idx |-> idx]
    /\ UNCHANGED <<besideEditor, questions_json>>

\* "Delete" of the question at position idx is clicked; the script reruns.
EditorDelete(idx) ==
    /\ idx \in 1..Len(questions)
    /\ questions' = pop(questions, idx)
    /\ editor_message' = ""
    /\ editor_event' = [button |-> "Delete", idx |-> idx]
    /\ UNCHANGED <<besideEditor, questions_json>>

\* "Save All Changes to Hugging Face" is clicked.
EditorSave ==
    /\ questions_json' = questions
    /\ editor_message' = "Updated questions.json saved to Hugging Face Hub!"
    /\ editor_event' = [button |-> "Save All Changes to Hugging Face"]
    /\ UNCHANGED <<besideEditor, questions>>

EditorNext ==
    \/ \E new_id \in IdPool, new_question \in TextPool, new_topics \in TopicsPool :
           EditorAdd(new_id, new_question, new_topics)
    \/ \E idx \in 1..MaxQuestions, edited_question \in TextPool, edited_topics \in TopicsPool :
           EditorUpdate(idx, edited_question, edited_topics)
    \/ \E idx \in 1..MaxQuestions : EditorDelete(idx)
    \/ EditorSave

EditorSpec == EditorInit /\ [][EditorNext]_editorVars

(***************************************************************************)
(* C25 In the question editor the ids stay pairwise distinct: no Add,      *)
(*     Update or Delete makes a list of distinct ids into one with a       *)
(*     repeated id; an Add whose id is in the list reports an error and    *)
(*     leaves the list as it is; an Update changes no id.                  *)
(***************************************************************************)
DistinctIds(qs) == \A i, j \in 1..Len(qs) : i # j => qs[i].id # qs[j].id

IdsOf(qs) == [i \in 1..Len(qs) |-> qs[i].id]

C25_IdsStayUnique ==
    [][ /\ DistinctIds(questions) => DistinctIds(questions')
        /\ (/\ editor_event'.button = "Add Question"
            /\ \E i \in 1..Len(questions) : questions[i].id = editor_event'.new_id)
           => (questions' = questions /\ editor_message' = "ID already exists.")
        /\ editor_event'.button = "Update" => IdsOf(questions') = IdsOf(questions)
      ]_editorVars

\* An Add with the id of the second of two questions has been refused.
C25_Witness ==
    /\ editor_event.button = "Add Question"
    /\ editor_message = "ID already exists."
    /\ Len(questions) = 2
    /\ DistinctIds(questions)
    /\ questions[2].id = editor_event.new_id

(***************************************************************************)
(* gather/app.py and annotate/app.py: the response collector and the       *)
(* annotation tool.  Each step is one script run of the tool whose page is *)
(* open; the two tools write below different directories of the dataset    *)
(* repository.  A path is a record of the parts its f-string is built of,  *)
(* the session id None being formatted as "None"; uuid4 never returns a    *)
(* value twice; the wall clock may return any reading.                     *)
(***************************************************************************)
\* questions.json: Q1 with a topic, Q2 without.
CollectorQuestions == <<[id |-> Q1, topic |-> <<"x">>], [id |-> Q2, topic |-> <<>>]>>

QuestionIdsOf(qs) == {qs[i].id : i \in 1..Len(qs)}

\* str(uuid.uuid4())
UuidPool == {<<"u1", "u2", "u3", "u4">>[i] : i \in 1..MaxUuids}

\* datetime.datetime.now()
Clock == 1..MaxClock

\* f"{session_id}" of an optional session id.
IdText(session_id) == IF Has(session_id) THEN Get(session_id) ELSE "None"

\* timestamp = datetime.datetime.now().isoformat().replace(":", "-")
DashedStamp(now) == [reading |-> now, colon |-> "-"]

\* timestamp = datetime.datetime.now().isoformat()
IsoStamp(now) == [reading |-> now, colon |-> ":"]

\* A record path without the uuid.
RecordPathByTimeOnly(dir, kind, timestamp, file_id) ==
    [dir |-> dir, kind |-> kind, timestamp |-> timestamp, file_id |-> ""]

\* f"gather/submission-{timestamp}-{file_id}.json", f"annotate/annotation-{timestamp}-{file_id}.json"
RecordPath(dir, kind, timestamp, file_id) ==
    [dir |-> dir, kind |-> kind, timestamp |-> timestamp, file_id |-> file_id]

\* f"gather/session-{session_id}.json", f"annotate/session-{session_id}.json"
SessionPath(dir, session_id) == [dir |-> dir, kind |-> "session", id |-> IdText(session_id)]

\* hf_api.upload_file: the file at the path is created or replaced.
upload_file(files, path, content) ==
    [p \in DOMAIN files \cup {path} |-> IF p = path THEN content ELSE files[p]]

\* {q['id']: "" for q in questions}
EmptyResponses == [q \in QuestionIdsOf(CollectorQuestions) |-> ""]

\* The metadata a browser session starts with.
DefaultMetadata == [model_name |-> "GPT-4", run_id |-> "experiment_today", operator |-> "unknown"]

\* A dict updated with the values of another.
Updated(d, e) == [k \in DOMAIN d \cup DOMAIN e |-> IF k \in DOMAIN e THEN e[k] ELSE d[k]]

\* The rest of a script run of gather/app.py after the session management:
\* "if not st.session_state.responses" and the loop that stores the value of
\* every text area.  A text area keeps what was typed (shown) or, when its
\* value argument changed and the build resets it, shows that value.
GatherRender(resp, shown, keep) ==
    LET filled == IF DOMAIN resp = {} THEN EmptyResponses ELSE resp
    IN  Updated(filled,
                [q \in QuestionIdsOf(CollectorQuestions) |->
                    IF keep \/ q \notin DOMAIN filled THEN shown[q] ELSE filled[q]])

\* session_data of gather/app.py
GatherSessionData(session_id, metadata, last_updated, resp) ==
    [session_id |-> session_id, metadata |-> metadata,
     last_updated |-> last_updated, responses |-> resp]

\* The files of earlier visits: none, or one session of each tool.
EarlierFiles ==
    { <<>>,
      upload_file(
          upload_file(<<>>, SessionPath("gather", Some("s0")),
              GatherSessionData(Some("s0"), DefaultMetadata, IsoStamp(1),
                                [q \in QuestionIdsOf(CollectorQuestions) |-> "a"])),
          SessionPath("annotate", Some("s0")),
          [session_id |-> Some("s0"), annotator |-> "ann", last_updated |-> IsoStamp(1),
           annotations |-> [q \in {Q1} |->
               [question_quality |-> 1, answer_quality |-> 0, comments |-> ""]]]) }

\* After the login and the first script run of the tool that is open: the
\* session management and, below it, the form are on the page.
CollectorInit ==
    /\ VisualizeAtRest
    /\ EditorAtRest
    /\ CompareAtRest
    /\ PromptsAtRest
    /\ collect_tool \in {"gather", "annotate"}
    /\ repo_files \in EarlierFiles
    /\ issued = {}
    /\ g_session_id = Absent
    /\ g_responses = IF collect_tool = "gather" THEN EmptyResponses ELSE <<>>
    /\ g_metadata = DefaultMetadata
    /\ a_session_id = Absent
    /\ a_annotations = <<>>
    /\ annotator = ""
    /\ selected_topic = "All Topics"
    /\ q_quality = [q \in QuestionIdsOf(CollectorQuestions) |-> 0]

gatherFrame == <<besideCollector, collect_tool, a_session_id, a_annotations, annotator,
                 selected_topic, q_quality>>

\* A response is typed into the text area of question qid.
GatherType(qid, text) ==
    /\ collect_tool = "gather"
    /\ g_responses' = [GatherRender(g_responses, g_responses, TRUE) EXCEPT ![qid] = text]
    /\ UNCHANGED <<gatherFrame, repo_files, issued, g_session_id, g_metadata>>

\* The model name is typed into the metadata.
GatherSetModel(model_name) ==
    /\ collect_tool = "gather"
    /\ g_metadata' = [g_metadata EXCEPT !.model_name = model_name]
    /\ g_responses' = GatherRender(g_responses, g_responses, TRUE)
    /\ UNCHANGED <<gatherFrame, repo_files, issued, g_session_id>>

\* "Create New Session", then the rerun.
GatherCreateSession(keep) ==
    /\ collect_tool = "gather"
    /\ g_session_id = Absent
    /\ \E u \in UuidPool \ issued :
           /\ g_session_id' = Some(u)
           /\ issued' = issued \cup {u}
    /\ g_responses' = GatherRender(<<>>, g_responses, keep)
    /\ UNCHANGED <<gatherFrame, repo_files, g_metadata>>

\* "Load Session" with a typed session id: on success the rerun, on an
\* exception of the download the error and the rest of the script.
GatherLoadSession(typed, keep) ==
    /\ collect_tool = "gather"
    /\ g_session_id = Absent
    /\ IF SessionPath("gather", Some(typed)) \in DOMAIN repo_files
       THEN LET session_data == repo_files[SessionPath("gather", Some(typed))]
            IN  /\ g_session_id' = Some(typed)
                /\ g_responses' = GatherRender(session_data.responses, g_responses, keep)
                /\ g_metadata' = session_data.metadata
       ELSE /\ g_responses' = GatherRender(g_responses, g_responses, TRUE)
            /\ UNCHANGED <<g_session_id, g_metadata>>
    /\ UNCHANGED <<gatherFrame, repo_files, issued>>

\* "Clear Form"
GatherClear(keep) ==
    /\ collect_tool = "gather"
    /\ g_responses' = GatherRender(EmptyResponses, g_responses, keep)
    /\ g_metadata' = DefaultMetadata
    /\ UNCHANGED <<gatherFrame, repo_files, issued, g_session_id>>

\* "Submit Response for {qid}": the submission record, then the session file.
GatherSubmit(qid, now) ==
    /\ collect_tool = "gather"
    /\ \E file_id \in UuidPool \ issued :
        LET resp       == GatherRender(g_responses, g_responses, TRUE)
            timestamp  == DashedStamp(now)
            submission == [session_id  |-> g_session_id,
                           timestamp   |-> timestamp,
                           model_name  |-> g_metadata.model_name,
                           run_id      |-> g_metadata.run_id,
                           operator    |-> g_metadata.operator,
                           question_id |-> qid,
                           responses   |-> [q \in {qid} |-> resp[qid]]]
        IN  /\ issued' = issued \cup {file_id}
            /\ g_responses' = resp
            /\ repo_files' =
                   upload_file(
                       upload_file(repo_files,
                                   RecordPath("gather", "submission", timestamp, file_id),
                                   submission),
                       SessionPath("gather", g_session_id),
                       GatherSessionData(g_session_id, g_metadata, timestamp, resp))
    /\ UNCHANGED <<gatherFrame, g_session_id, g_metadata>>

\* "Save Current Session"
GatherSave(now) ==
    /\ collect_tool = "gather"
    /\ g_responses' = GatherRender(g_responses, g_responses, TRUE)
    /\ repo_files' =
           upload_file(repo_files, SessionPath("gather", g_session_id),
                       GatherSessionData(g_session_id, g_metadata, IsoStamp(now), g_responses'))
    /\ UNCHANGED <<gatherFrame, issued, g_session_id, g_metadata>>

\* questions_to_annotate
QuestionsToAnnotate(topic) ==
    IF topic = "All Topics" THEN CollectorQuestions
    ELSE IF topic = "None"
         THEN SelectSeq(CollectorQuestions, LAMBDA q : Len(q.topic) = 0)
         ELSE SelectSeq(CollectorQuestions, LAMBDA q : topic \in Range(q.topic))

\* ["All Topics"] + topics_list
TopicOptions ==
    {"All Topics"} \cup
    UNION {IF Len(CollectorQuestions[i].topic) = 0 THEN {"None"}
           ELSE Range(CollectorQuestions[i].topic) : i \in 1..Len(CollectorQuestions)}

\* current_annotations of question qid
CurrentAnnotations(quality, qid) ==
    [question_quality |-> quality[qid], answer_quality |-> 0, comments |-> ""]

\* The rest of a script run of annotate/app.py after the session management:
\* nothing without an annotator name (st.stop), otherwise the loop that stores
\* the current annotations of the questions of the selected topic.
AnnotateRender(ann, name, topic, quality) ==
    IF name = "" THEN ann
    ELSE Updated(ann, [q \in QuestionIdsOf(QuestionsToAnnotate(topic)) |->
                          CurrentAnnotations(quality, q)])

\* session_data of annotate/app.py
AnnotateSessionData(session_id, name, last_updated, ann) ==
    [session_id |-> session_id, annotator |-> name,
     last_updated |-> last_updated, annotations |-> ann]

annotateFrame == <<besideCollector, collect_tool, g_session_id, g_responses, g_metadata>>

\* The annotator name is typed.
AnnotateSetAnnotator(name) ==
    /\ collect_tool = "annotate"
    /\ annotator' = name
    /\ a_annotations' = AnnotateRender(a_annotations, name, selected_topic, q_quality)
    /\ UNCHANGED <<annotateFrame, repo_files, issued, a_session_id, selected_topic, q_quality>>

\* A topic is selected.
AnnotateSelectTopic(topic) ==
    /\ collect_tool = "annotate"
    /\ annotator # ""
    /\ selected_topic' = topic
    /\ a_annotations' = AnnotateRender(a_annotations, annotator, topic, q_quality)
    /\ UNCHANGED <<annotateFrame, repo_files, issued, a_session_id, annotator, q_quality>>

\* The question quality of question qid is rated.
AnnotateRate(qid, rating) ==
    /\ collect_tool = "annotate"
    /\ annotator # ""
    /\ qid \in QuestionIdsOf(QuestionsToAnnotate(selected_topic))
    /\ q_quality' = [q_quality EXCEPT ![qid] = rating]
    /\ a_annotations' = AnnotateRender(a_annotations, annotator, selected_topic, q_quality')
    /\ UNCHANGED <<annotateFrame, repo_files, issued, a_session_id, annotator, selected_topic>>

\* "Create New Session", then the rerun.
AnnotateCreateSession ==
    /\ collect_tool = "annotate"
    /\ a_session_id = Absent
    /\ \E u \in UuidPool \ issued :
           /\ a_session_id' = Some(u)
           /\ issued' = issued \cup {u}
    /\ a_annotations' = AnnotateRender(<<>>, annotator, selected_topic, q_quality)
    /\ UNCHANGED <<annotateFrame, repo_files, annotator, selected_topic, q_quality>>

\* "Load Session" with a typed session id.
AnnotateLoadSession(typed) ==
    /\ collect_tool = "annotate"
    /\ a_session_id = Absent
    /\ IF SessionPath("annotate", Some(typed)) \in DOMAIN repo_files
       THEN LET session_data == repo_files[SessionPath("annotate", Some(typed))]
            IN  /\ a_session_id' = Some(typed)
                /\ a_annotations' = AnnotateRender(session_data.annotations, annotator,
                                                   selected_topic, q_quality)
       ELSE /\ a_annotations' = AnnotateRender(a_annotations, annotator,
                                               selected_topic, q_quality)
            /\ UNCHANGED a_session_id
    /\ UNCHANGED <<annotateFrame, repo_files, issued, annotator, selected_topic, q_quality>>

\* "Submit Annotations for {qid}": the annotation record, then the session file.
AnnotateSubmit(qid, now) ==
    /\ collect_tool = "annotate"
    /\ annotator # ""
    /\ qid \in QuestionIdsOf(QuestionsToAnnotate(selected_topic))
    /\ \E file_id \in UuidPool \ issued :
        LET ann        == AnnotateRender(a_annotations, annotator, selected_topic, q_quality)
            timestamp  == DashedStamp(now)
            submission == [session_id  |-> a_session_id,
                           annotator   |-> annotator,
                           timestamp   |-> timestamp,
                           topic       |-> selected_topic,
                           question_id |-> qid,
                           annotations |-> [q \in {qid} |-> CurrentAnnotations(q_quality, qid)]]
        IN  /\ issued' = issued \cup {file_id}
            /\ a_annotations' = ann
            /\ repo_files' =
                   upload_file(
                       upload_file(repo_files,
                                   RecordPath("annotate", "annotation", timestamp, file_id),
                                   submission),
                       SessionPath("annotate", a_session_id),
                       AnnotateSessionData(a_session_id, annotator, timestamp, ann))
    /\ UNCHANGED <<annotateFrame, a_session_id, annotator, selected_topic, q_quality>>

\* "Save Current Session"
AnnotateSave(now) ==
    /\ collect_tool = "annotate"
    /\ annotator # ""
    /\ a_annotations' = AnnotateRender(a_annotations, annotator, selected_topic, q_quality)
    /\ repo_files' =
           upload_file(repo_files, SessionPath("annotate", a_session_id),
                       AnnotateSessionData(a_session_id, annotator, IsoStamp(now), a_annotations'))
    /\ UNCHANGED <<annotateFrame, issued, a_session_id, annotator, selected_topic, q_quality>>

\* What is typed: responses, model names, session ids, annotator names.
ResponsePool == {"", "a"}
ModelNamePool == {"GPT-4", "m"}
TypedIdPool == {"s0", "None"}
AnnotatorPool == {"", "ann"}
RatingPool == {0, 1}

CollectorNext ==
    \/ \E qid \in QuestionIdsOf(CollectorQuestions), text \in ResponsePool : GatherType(qid, text)
    \/ \E model_name \in ModelNamePool : GatherSetModel(model_name)
    \/ \E keep \in BOOLEAN : GatherCreateSession(keep)
    \/ \E typed \in TypedIdPool, keep \in BOOLEAN : GatherLoadSession(typed, keep)
    \/ \E keep \in BOOLEAN : GatherClear(keep)
    \/ \E qid \in QuestionIdsOf(CollectorQuestions), now \in Clock : GatherSubmit(qid, now)
    \/ \E now \in Clock : GatherSave(now)
    \/ \E name \in AnnotatorPool : AnnotateSetAnnotator(name)
    \/ \E topic \in TopicOptions : AnnotateSelectTopic(topic)
    \/ \E qid \in QuestionIdsOf(CollectorQuestions), rating \in RatingPool : AnnotateRate(qid, rating)
    \/ AnnotateCreateSession
    \/ \E typed \in TypedIdPool : AnnotateLoadSession(typed)
    \/ \E qid \in QuestionIdsOf(CollectorQuestions), now \in Clock : AnnotateSubmit(qid, now)
    \/ \E now \in Clock : AnnotateSave(now)

CollectorSpec == CollectorInit /\ [][CollectorNext]_collectVars

(***************************************************************************)
(* C24 The submission records of the response collector and of the         *)
(*     annotation tool are immutable: every Submit writes its record to a  *)
(*     path no file of the repository has, so no step removes or changes a *)
(*     record written before; only session files are replaced.             *)
(***************************************************************************)
IsRecordPath(p) == p.kind \in {"submission", "annotation"}

C24_RecordsImmutable ==
    [][ /\ \A p \in DOMAIN repo_files :
               IsRecordPath(p) => (p \in DOMAIN repo_files' /\ repo_files'[p] = repo_files[p])
        /\ \A p \in DOMAIN repo_files :
               (p \in DOMAIN repo_files' /\ repo_files'[p] # repo_files[p]) => p.kind = "session"
      ]_collectVars

\* Two records of the same question written at the same clock reading, and
\* a session file that was written again after the first of them.
C24_Witness ==
    \E p1, p2 \in DOMAIN repo_files :
        /\ IsRecordPath(p1) /\ IsRecordPath(p2)
        /\ p1 # p2
        /\ p1.timestamp = p2.timestamp
        /\ repo_files[p1].question_id = repo_files[p2].question_id
        /\ repo_files[p1] # repo_files[p2]
        /\ \E s \in DOMAIN repo_files : s.kind = "session" /\ s.id # "s0"

(***************************************************************************)
(* C28 The response collector and the annotation tool write no record and  *)
(*     no session file while session_id is None: every file of the         *)
(*     repository carries a session id, and there is no session-None.json. *)
(***************************************************************************)
C28_NoUploadWithoutSession ==
    \A p \in DOMAIN repo_files :
        /\ Has(repo_files[p].session_id)
        /\ p.kind = "session" => p.id # "None"

(***************************************************************************)
(* compare/app.py: the comparison tool.  Each step is one script run.  A   *)
(* JSON value that is typed or uploaded is a record [json |-> "object",    *)
(* fields |-> dict], [json |-> "array"] or, when it does not parse,        *)
(* [json |-> "invalid"].                                                   *)
(***************************************************************************)
\* questions.json: the second question has no "answer".
CompareQuestions ==
    <<[id |-> Q1, question |-> "q1", answer |-> "a1", topic |-> <<"x">>],
      [id |-> Q2, question |-> "q2", topic |-> <<>>]>>

\* A file gather/session-*.json.
SessionFile(filename, session_id, model_name, last_updated, resp) ==
    [filename |-> filename,
     data |-> [session_id |-> session_id,
               metadata |-> [model_name |-> model_name, run_id |-> "r", operator |-> "op"],
               last_updated |-> last_updated,
               responses |-> resp]]

\* A session file without "responses".
SessionFileNoResponses(filename, session_id, model_name, last_updated) ==
    [filename |-> filename,
     data |-> [session_id |-> session_id,
               metadata |-> [model_name |-> model_name, run_id |-> "r", operator |-> "op"],
               last_updated |-> last_updated]]

\* The listings of gather/session-* of the repository: two sessions, one of
\* them saved without a session id and without an answer to Q2; three
\* sessions, two of them with the same model, run and time, one without
\* responses.
SessionListings ==
    { <<SessionFile("gather/session-a.json", Some("a"), "m1", 1, (Q1 :> "x" @@ Q2 :> "y")),
        SessionFile("gather/session-None.json", Absent, "m2", 1, (Q1 :> "z"))>>,
      <<SessionFile("gather/session-a.json", Some("a"), "m1", 1, (Q1 :> "x" @@ Q2 :> "y")),
        SessionFile("gather/session-b.json", Some("b"), "m1", 1, (Q2 :> "w")),
        SessionFileNoResponses("gather/session-c.json", Some("c"), "m3", 2)>> }

\* load_session_metadata: one entry per session file that has the three keys.
load_session_metadata(files) ==
    [i \in 1..Len(files) |->
        [session_id   |-> files[i].data.session_id,
         metadata     |-> files[i].data.metadata,
         last_updated |-> files[i].data.last_updated,
         filename     |-> files[i].filename]]

\* f"{s['metadata']['model_name']} - {s['metadata']['run_id']} - {s['last_updated']}"
Label(s) == <<s.metadata.model_name, s.metadata.run_id, s.last_updated>>

\* session_options: the last session of a label is the one the label selects.
SessionOption(sessions, key) ==
    sessions[CHOOSE i \in 1..Len(sessions) :
                /\ Label(sessions[i]) = key
                /\ \A j \in (i + 1)..Len(sessions) : Label(sessions[j]) # key]

\* The values the multiselect can have: sequences of distinct labels.
Selections(sessions) ==
    {k \in SeqsUpTo({Label(sessions[i]) : i \in 1..Len(sessions)}, Len(sessions)) :
        \A i, j \in 1..Len(k) : i # j => k[i] # k[j]}

\* The selections of all listings.
SelectionPool == UNION {Selections(load_session_metadata(files)) : files \in SessionListings}

\* The file a session entry names.
FileNamed(files, filename) ==
    files[CHOOSE i \in 1..Len(files) : files[i].filename = filename]

\* load_responses_from_sessions: a session whose file raises is left out.
RECURSIVE load_responses_from_sessions(_, _)
load_responses_from_sessions(files, selected_sessions) ==
    IF Len(selected_sessions) = 0 THEN <<>>
    ELSE LET session_data == FileNamed(files, selected_sessions[1].filename).data
         IN  (IF "responses" \in DOMAIN session_data
              THEN <<[session_id |-> session_data.session_id,
                      metadata   |-> session_data.metadata,
                      responses  |-> session_data.responses]>>
              ELSE <<>>)
             \o load_responses_from_sessions(files, Tail(selected_sessions))

\* The response entries of one question.
RECURSIVE ResponseEntries(_, _)
ResponseEntries(qid, resps) ==
    IF Len(resps) = 0 THEN <<>>
    ELSE (IF qid \in DOMAIN resps[1].responses
          THEN <<[model_name |-> resps[1].metadata.model_name,
                  run_id     |-> resps[1].metadata.run_id,
                  operator   |-> resps[1].metadata.operator,
                  session_id |-> resps[1].session_id,
                  response   |-> resps[1].responses[qid]]>>
          ELSE <<>>)
         \o ResponseEntries(qid, Tail(resps))

\* comparison_data
BuildComparison(qs, selected_sessions, resps) ==
    [session_ids |-> [i \in 1..Len(selected_sessions) |-> selected_sessions[i].session_id],
     items |-> [i \in 1..Len(qs) |->
                  [id        |-> qs[i].id,
                   question  |-> qs[i].question,
                   answer    |-> IF "answer" \in DOMAIN qs[i] THEN qs[i].answer ELSE "",
                   topic     |-> qs[i].topic,
                   responses |-> ResponseEntries(qs[i].id, resps)]]]

\* evaluation.json: missing, or an object that asks for "responses".
SchemaPool == {Absent, Some({"responses"})}

\* What is uploaded or pasted: nothing, an object with responses, an empty
\* object, an array, text that is no JSON.
EvaluationPool ==
    { Absent,
      Some([json |-> "object",
            fields |-> [session_id |-> "e", responses |-> (Q1 :> "v" @@ Q2 :> "v")]]),
      Some([json |-> "object", fields |-> <<>>]),
      Some([json |-> "array"]),
      Some([json |-> "invalid"]) }

\* What the block of an uploaded file or of a pasted text ends in: nothing
\* to do, an st.error of its except, the st.stop of a failed validation, or
\* the responses appended.
Evaluate(given, schema, fallback_id) ==
    IF ~Has(given) THEN [outcome |-> "none"]
    ELSE LET d == Get(given)
         IN  IF d.json = "invalid" THEN [outcome |-> "error"]
             ELSE IF Has(schema) /\ d.json = "array" THEN [outcome |-> "stop"]
             ELSE IF Has(schema) /\ \E f \in Get(schema) : f \notin DOMAIN d.fields
                  THEN [outcome |-> "stop"]
             ELSE IF d.json = "array" THEN [outcome |-> "error"]
             ELSE [outcome |-> "appended",
                   entry |-> [session_id |-> IF "session_id" \in DOMAIN d.fields
                                             THEN Some(d.fields.session_id)
                                             ELSE Some(fallback_id),
                              metadata |-> [model_name |-> "Uploaded Model",
                                            run_id |-> "uploaded", operator |-> "user"],
                              responses |-> IF "responses" \in DOMAIN d.fields
                                            THEN d.fields.responses ELSE <<>>]]

\* A comparison built from the list the evaluation results were appended to.
ResponsesWithEvaluations(loaded, appended) == appended

\* The responses comparison_data is built from: the loop over the questions
\* comes before the blocks that append the evaluation results.
ResponsesCompared(loaded, appended) == loaded

\* One script run.
CompareRun(files, keys, uploaded, pasted, schema) ==
    LET sessions          == load_session_metadata(files)
        selected_sessions == [i \in 1..Len(keys) |-> SessionOption(sessions, keys[i])]
        loaded            == load_responses_from_sessions(files, selected_sessions)
        from_file         == Evaluate(uploaded, schema, "uploaded_file")
        after_file        == IF from_file.outcome = "appended"
                             THEN Append(loaded, from_file.entry) ELSE loaded
        from_text         == IF from_file.outcome = "stop" THEN [outcome |-> "none"]
                             ELSE Evaluate(pasted, schema, "pasted_json")
        after_text        == IF from_text.outcome = "appended"
                             THEN Append(after_file, from_text.entry) ELSE after_file
    IN  [comparison_data |-> BuildComparison(CompareQuestions, selected_sessions,
                                             ResponsesCompared(loaded, after_text)),
         responses       |-> after_text,
         stopped         |-> from_file.outcome = "stop" \/ from_text.outcome = "stop"]

\* The first script run: nothing selected, uploaded or pasted.
CompareInit ==
    /\ VisualizeAtRest
    /\ EditorAtRest
    /\ CollectorAtRest
    /\ PromptsAtRest
    /\ session_files \in SessionListings
    /\ evaluation_schema \in SchemaPool
    /\ selected_session_keys = <<>>
    /\ uploaded_file = Absent
    /\ json_text = Absent
    /\ c_comparison_data = CompareRun(session_files, <<>>, Absent, Absent, evaluation_schema).comparison_data
    /\ responses = <<>>
    /\ compare_stopped = FALSE
    /\ comparison_files = <<>>

\* The script runs with the widgets as given.
CompareRerun(keys, uploaded, pasted) ==
    LET r == CompareRun(session_files, keys, uploaded, pasted, evaluation_schema)
    IN  /\ selected_session_keys' = keys
        /\ uploaded_file' = uploaded
        /\ json_text' = pasted
        /\ c_comparison_data' = r.comparison_data
        /\ responses' = r.responses
        /\ compare_stopped' = r.stopped

\* The selection of "Choose sessions to compare:" changes.
CompareSelect(keys) ==
    /\ keys \in Selections(load_session_metadata(session_files))
    /\ keys # selected_session_keys
    /\ CompareRerun(keys, uploaded_file, json_text)
    /\ UNCHANGED <<besideCompare, session_files, evaluation_schema, comparison_files>>

\* A file is uploaded or removed.
CompareUploadFile(uploaded) ==
    /\ uploaded # uploaded_file
    /\ CompareRerun(selected_session_keys, uploaded, json_text)
    /\ UNCHANGED <<besideCompare, session_files, evaluation_schema, comparison_files>>

\* Text is pasted or cleared.
ComparePaste(pasted) ==
    /\ pasted # json_text
    /\ CompareRerun(selected_session_keys, uploaded_file, pasted)
    /\ UNCHANGED <<besideCompare, session_files, evaluation_schema, comparison_files>>

\* "Upload Comparison to Hugging Face", a button the script reaches when no
\* validation has stopped it: compare/comparison_{timestamp}.json is written.
CompareUploadToHF(now) ==
    /\ ~compare_stopped
    /\ CompareRerun(selected_session_keys, uploaded_file, json_text)
    /\ comparison_files' =
           upload_file(comparison_files, [dir |-> "compare", timestamp |-> now], c_comparison_data')
    /\ UNCHANGED <<besideCompare, session_files, evaluation_schema>>

CompareNext ==
    \/ \E keys \in SelectionPool : CompareSelect(keys)
    \/ \E uploaded \in EvaluationPool : CompareUploadFile(uploaded)
    \/ \E pasted \in EvaluationPool : ComparePaste(pasted)
    \/ \E now \in Clock : CompareUploadToHF(now)

CompareSpec == CompareInit /\ [][CompareNext]_compareVars

(***************************************************************************)
(* C29 The comparison data, as offered for download and as uploaded, is    *)
(*     determined by the question list and the selected sessions: one item *)
(*     per question in the order of the list, each with one response entry *)
(*     per selected session whose responses hold the question id, in the   *)
(*     order of the selection; evaluation results that are uploaded or     *)
(*     pasted, valid or not, do not change it.                             *)
(***************************************************************************)
\* The session file the k-th selected label stands for.
SelectedFile(keys, k) ==
    LET last == CHOOSE i \in 1..Len(session_files) :
                    /\ Label(session_files[i].data) = keys[k]
                    /\ \A j \in (i + 1)..Len(session_files) :
                           Label(session_files[j].data) # keys[k]
    IN  session_files[last].data

\* The selected sessions that answer question qid, in the order of the selection.
Answering(keys, qid) ==
    SelectSeq([k \in 1..Len(keys) |-> SelectedFile(keys, k)],
              LAMBDA s : "responses" \in DOMAIN s /\ qid \in DOMAIN s.responses)

\* comparison is the comparison data of the selection keys.
IsComparisonOf(comparison, keys) ==
    /\ Len(comparison.items) = Len(CompareQuestions)
    /\ \A i \in 1..Len(CompareQuestions) :
          LET item == comparison.items[i]
              from == Answering(keys, CompareQuestions[i].id)
          IN  /\ item.id = CompareQuestions[i].id
              /\ Len(item.responses) = Len(from)
              /\ \A k \in 1..Len(from) :
                     /\ item.responses[k].session_id = from[k].session_id
                     /\ item.responses[k].model_name = from[k].metadata.model_name
                     /\ item.responses[k].response = from[k].responses[item.id]

C29_ComparisonOfSelection ==
    /\ IsComparisonOf(c_comparison_data, selected_session_keys)
    /\ \A p \in DOMAIN comparison_files :
           \E keys \in Selections(load_session_metadata(session_files)) :
               IsComparisonOf(comparison_files[p], keys)

\* Two sessions are selected, the later listed one first; valid evaluation
\* results are uploaded and pasted; the comparison has been uploaded.
C29_Witness ==
    /\ Len(selected_session_keys) = 2
    /\ Len(responses) = 4
    /\ Len(c_comparison_data.items[1].responses) = 2
    /\ c_comparison_data.items[1].responses[1].session_id = Absent
    /\ Len(c_comparison_data.items[2].responses) = 1
    /\ DOMAIN comparison_files # {}

(***************************************************************************)
(* prompts/app.py: the prompt manager.  Each step is one script run, or    *)
(* the expiry of the 60 s cache of load_prompts.  The prompts are a dict   *)
(* from key to prompt; of a prompt the model keeps id, name, content,      *)
(* created_at and updated_at.                                              *)
(***************************************************************************)
\* load_prompts: the cached value while there is one, otherwise the file of
\* the repository or, without one, no prompts.
load_prompts(cache, file) ==
    IF Has(cache) THEN Get(cache)
    ELSE IF Has(file) THEN Get(file) ELSE <<>>

\* A prompt as it is stored by an import: id and dates are set, the other
\* fields are those of the imported prompt.
Imported(prompt_id, prompt, now) ==
    [k \in DOMAIN prompt \cup {"id", "created_at", "updated_at"} |->
        IF k = "id" THEN prompt_id
        ELSE IF k \in {"created_at", "updated_at"} THEN IsoStamp(now)
        ELSE prompt[k]]

\* for prompt_id, prompt in imported_data.get("prompts", {}).items():
\*     if prompt_id not in prompts_data["prompts"]: ...
merge(prompts, imported, now) ==
    [k \in DOMAIN prompts \cup DOMAIN imported |->
        IF k \in DOMAIN prompts THEN prompts[k] ELSE Imported(k, imported[k], now)]

\* What is uploaded: a prompt A and a prompt B whose id field is not its
\* key; an array.
UploadPool ==
    { Some([json |-> "object",
            prompts |-> [k \in {"A", "B"} |->
                IF k = "A" THEN [name |-> "n2", content |-> "c"]
                ELSE [id |-> "zzz", name |-> "b", content |-> "c"]]]),
      Some([json |-> "array"]) }

\* What is pasted: nothing; another prompt A; text that is no JSON.
PastePool ==
    { Absent,
      Some([json |-> "object",
            prompts |-> [k \in {"A"} |-> [name |-> "n1", content |-> "c"]]]),
      Some([json |-> "invalid"]) }

\* system_prompts.json: missing, or as the tool saved it.
PromptFiles ==
    { Absent,
      Some([k \in {"B"} |-> [id |-> "B", name |-> "b0", content |-> "c",
                             created_at |-> IsoStamp(1), updated_at |-> IsoStamp(1)]]) }

\* The first script run: load_prompts has filled its cache.
PromptsInit ==
    /\ VisualizeAtRest
    /\ EditorAtRest
    /\ CollectorAtRest
    /\ CompareAtRest
    /\ prompts_file \in PromptFiles
    /\ prompts_cache = Some(load_prompts(Absent, prompts_file))
    /\ prompt_schema \in BOOLEAN
    /\ editing_prompt = Absent
    /\ prompt_upload = Absent
    /\ prompt_text = Absent
    /\ custom_prompt = ""
    /\ prompt_ids = {}
    /\ prompt_event = [button |-> "none"]

\* The cache entry of load_prompts is older than its ttl.
PromptsExpire ==
    /\ Has(prompts_cache)
    /\ prompts_cache' = Absent
    /\ UNCHANGED <<besidePrompts, prompts_file, prompt_schema, editing_prompt, prompt_upload,
                   prompt_text, custom_prompt, prompt_ids, prompt_event>>

\* A script run in which no button is pressed: a widget has changed.
PromptsWidget(uploaded, pasted, custom) ==
    /\ <<uploaded, pasted, custom>> # <<prompt_upload, prompt_text, custom_prompt>>
    /\ prompt_upload' = uploaded
    /\ prompt_text' = pasted
    /\ custom_prompt' = custom
    /\ prompts_cache' = Some(load_prompts(prompts_cache, prompts_file))
    /\ prompt_event' = [button |-> "none"]
    /\ UNCHANGED <<besidePrompts, prompts_file, prompt_schema, editing_prompt, prompt_ids>>

\* "Import from File": the button is there when the JSON has parsed; .get
\* of what is no object raises and the except shows the error, otherwise
\* the merged prompts are saved.
PromptsImportFromFile(now) ==
    /\ Has(prompt_upload)
    /\ Get(prompt_upload).json # "invalid"
    /\ prompts_cache' = Some(load_prompts(prompts_cache, prompts_file))
    /\ IF Get(prompt_upload).json = "object"
       THEN /\ prompts_file' = Some(merge(load_prompts(prompts_cache, prompts_file),
                                          Get(prompt_upload).prompts, now))
            /\ prompt_event' = [button |-> "Import from File", saved |-> TRUE,
                                imported |-> Get(prompt_upload).prompts]
       ELSE /\ prompt_event' = [button |-> "Import from File", saved |-> FALSE]
            /\ UNCHANGED prompts_file
    /\ UNCHANGED <<besidePrompts, prompt_schema, editing_prompt, prompt_upload, prompt_text,
                   custom_prompt, prompt_ids>>

\* "Import from Text"
PromptsImportFromText(now) ==
    /\ Has(prompt_text)
    /\ Get(prompt_text).json # "invalid"
    /\ prompts_cache' = Some(load_prompts(prompts_cache, prompts_file))
    /\ IF Get(prompt_text).json = "object"
       THEN /\ prompts_file' = Some(merge(load_prompts(prompts_cache, prompts_file),
                                          Get(prompt_text).prompts, now))
            /\ prompt_event' = [button |-> "Import from Text", saved |-> TRUE,
                                imported |-> Get(prompt_text).prompts]
       ELSE /\ prompt_event' = [button |-> "Import from Text", saved |-> FALSE]
            /\ UNCHANGED prompts_file
    /\ UNCHANGED <<besidePrompts, prompt_schema, editing_prompt, prompt_upload, prompt_text,
                   custom_prompt, prompt_ids>>

\* "Create New Prompt"
PromptsCreateNew(now) ==
    /\ \E u \in UuidPool \ prompt_ids :
           /\ prompt_ids' = prompt_ids \cup {u}
           /\ editing_prompt' = Some([id |-> u, name |-> "", content |-> "",
                                      created_at |-> IsoStamp(now),
                                      updated_at |-> IsoStamp(now)])
    /\ prompts_cache' = Some(load_prompts(prompts_cache, prompts_file))
    /\ prompt_event' = [button |-> "Create New Prompt"]
    /\ UNCHANGED <<besidePrompts, prompts_file, prompt_schema, prompt_upload, prompt_text,
                   custom_prompt>>

\* The button of an existing prompt in the sidebar.
PromptsSelect(prompt_id) ==
    /\ prompt_id \in DOMAIN load_prompts(prompts_cache, prompts_file)
    /\ editing_prompt' = Some(load_prompts(prompts_cache, prompts_file)[prompt_id])
    /\ prompts_cache' = Some(load_prompts(prompts_cache, prompts_file))
    /\ prompt_event' = [button |-> "select"]
    /\ UNCHANGED <<besidePrompts, prompts_file, prompt_schema, prompt_upload, prompt_text,
                   custom_prompt, prompt_ids>>

\* "Save Prompt" of the form, with the name typed into it.
PromptsSave(name, now) ==
    /\ Has(editing_prompt)
    /\ LET prompt == [Get(editing_prompt) EXCEPT !.name = name, !.updated_at = IsoStamp(now)]
       IN  /\ editing_prompt' = Some(prompt)
           /\ prompts_file' = Some(Updated(load_prompts(prompts_cache, prompts_file),
                                           [k \in {prompt.id} |-> prompt]))
    /\ prompts_cache' = Some(load_prompts(prompts_cache, prompts_file))
    /\ prompt_event' = [button |-> "Save Prompt"]
    /\ UNCHANGED <<besidePrompts, prompt_schema, prompt_upload, prompt_text, custom_prompt,
                   prompt_ids>>

\* "Generate and Save System Prompt"
PromptsGenerate(now) ==
    /\ prompts_cache' = Some(load_prompts(prompts_cache, prompts_file))
    /\ prompt_event' = [button |-> "Generate and Save System Prompt"]
    /\ IF custom_prompt = "" \/ ~prompt_schema
       THEN UNCHANGED <<prompts_file, prompt_ids>>
       ELSE \E prompt_id \in UuidPool \ prompt_ids :
               /\ prompt_ids' = prompt_ids \cup {prompt_id}
               /\ prompts_file' =
                      Some(Updated(load_prompts(prompts_cache, prompts_file),
                                   [k \in {prompt_id} |->
                                       [id |-> prompt_id, name |-> "Evaluation System Prompt",
                                        content |-> custom_prompt,
                                        created_at |-> IsoStamp(now),
                                        updated_at |-> IsoStamp(now)]]))
    /\ UNCHANGED <<besidePrompts, prompt_schema, editing_prompt, prompt_upload, prompt_text,
                   custom_prompt>>

PromptsNext ==
    \/ PromptsExpire
    \/ \E uploaded \in UploadPool, pasted \in PastePool, custom \in {"", "c"} :
           PromptsWidget(uploaded, pasted, custom)
    \/ \E now \in Clock : PromptsImportFromFile(now)
    \/ \E now \in Clock : PromptsImportFromText(now)
    \/ \E now \in Clock : PromptsCreateNew(now)
    \/ \E prompt_id \in {"A", "B"} \cup UuidPool : PromptsSelect(prompt_id)
    \/ \E name \in {"n"}, now \in Clock : PromptsSave(name, now)
    \/ \E now \in Clock : PromptsGenerate(now)

PromptsSpec == PromptsInit /\ [][PromptsNext]_promptVars

(***************************************************************************)
(* C30 An import into the prompt manager overwrites no prompt: a stored    *)
(*     prompt whose id is imported is unchanged, an imported id that is    *)
(*     not stored is added with its id field set to its key; and after     *)
(*     every Import, Save Prompt and Generate each stored prompt has its   *)
(*     key as id.                                                          *)
(***************************************************************************)
\* The stored prompts.
Stored(file) == IF Has(file) THEN Get(file) ELSE <<>>

C30_ImportKeepsPrompts ==
    [][ /\ (/\ prompt_event'.button \in {"Import from File", "Import from Text"}
            /\ prompt_event'.saved)
           => \A k \in DOMAIN prompt_event'.imported :
                  /\ k \in DOMAIN Stored(prompts_file')
                  /\ Stored(prompts_file')[k].id = k
                  /\ k \in DOMAIN Stored(prompts_file) =>
                         Stored(prompts_file')[k] = Stored(prompts_file)[k]
        /\ \A k \in DOMAIN Stored(prompts_file') : Stored(prompts_file')[k].id = k
      ]_promptVars

====
